---- MODULE Spec2Model ----
(***************************************************************************)
(* Model of the CasaOS app-store aggregation pipeline (casaos_dash.py):    *)
(* the metadata resolver, the compose-document fetch, the app-record cache *)
(* and the run tracker.                                                    *)
(***************************************************************************)
EXTENDS Integers, Sequences, FiniteSets, TLC

(***************************************************************************)
(* Text.  A Python str is a sequence of one-character strings, so that     *)
(* str.lower() and the `in` substring test are computed, not assumed.      *)
(***************************************************************************)
UpperCase == <<"A","B","C","D","E","F","G","H","I","J","K","L","M",
               "N","O","P","Q","R","S","T","U","V","W","X","Y","Z">>
LowerCase == <<"a","b","c","d","e","f","g","h","i","j","k","l","m",
               "n","o","p","q","r","s","t","u","v","w","x","y","z">>

\* str.lower() on one character
LowerChar(c) ==
  IF \E i \in 1..Len(UpperCase) : UpperCase[i] = c
  THEN LowerCase[CHOOSE i \in 1..Len(UpperCase) : UpperCase[i] = c]
  ELSE c

\* str.lower()
Lower(s) == [i \in 1..Len(s) |-> LowerChar(s[i])]

\* `sub in s` for two str
Contains(sub, s) ==
  \E i \in 0..(Len(s) - Len(sub)) : SubSeq(s, i + 1, i + Len(sub)) = sub

s_A == <<"A">>
s_B == <<"B">>
s_C == <<"C">>
s_Jellyfin == <<"M", "y", " ", "J", "e", "l", "l", "y", "f", "i", "n">>
s_RedisBudget == <<"B", "u", "d", "g", "e", "t", " ", "R", "e", "d", "i", "s">>
s_Uncategorized == <<"U", "n", "c", "a", "t", "e", "g", "o", "r", "i", "z", "e", "d">>
s_Unknown == <<"U", "n", "k", "n", "o", "w", "n">>
s_Error == <<"E", "r", "r", "o", "r">>
s_NoDescription == <<"N", "o", " ", "d", "e", "s", "c", "r", "i", "p", "t", "i", "o", "n", " ", "a", "v", "a", "i", "l", "a", "b", "l", "e", ".">>
s_ErrorLoading == <<"E", "r", "r", "o", "r", " ", "l", "o", "a", "d", "i", "n", "g", " ", "a", "p", "p", " ", "d", "a", "t", "a">>
s_PlaceholderIcon == <<"h", "t", "t", "p", "s", ":", "/", "/", "v", "i", "a", ".", "p", "l", "a", "c", "e", "h", "o", "l", "d", "e", "r", ".", "c", "o", "m", "/", "6", "4">>
s_Media == <<"M", "e", "d", "i", "a">>
s_Database == <<"D", "a", "t", "a", "b", "a", "s", "e">>
s_Tools == <<"T", "o", "o", "l", "s">>
s_enUS == <<"U">>
s_enus == <<"u">>
s_en == <<"e">>
s_de == <<"d">>
s_zh == <<"z">>
s_one == <<"1">>
s_D == <<"D">>
s_T == <<"T">>
s_I == <<"I">>
s_app == <<"a", "p", "p">>
s_port == <<"8", "0">>
s_mem == <<"1", "g">>
s_plexdir == <<"p", "l", "e", "x">>

(***************************************************************************)
(* Values.  A value read from YAML/JSON is absent (the key is missing),    *)
(* None, a str, or a dict of locale -> str kept in insertion order.        *)
(***************************************************************************)
Absent == [kind |-> "absent", s |-> <<>>, m |-> <<>>]
None == [kind |-> "none", s |-> <<>>, m |-> <<>>]
Str(cs) == [kind |-> "str", s |-> cs, m |-> <<>>]
Dict(pairs) == [kind |-> "map", s |-> <<>>, m |-> pairs]

\* Python truthiness: None, '' and {} are falsy
Truthy(x) ==
  \/ x.kind = "str" /\ x.s # <<>>
  \/ x.kind = "map" /\ x.m # <<>>

\* a or b
Or(a, b) == IF Truthy(a) THEN a ELSE b

\* d.get(key): a missing key reads as None
Get(v) == IF v.kind = "absent" THEN None ELSE v

\* d.get(key, default)
GetOr(v, default) == IF v.kind = "absent" THEN default ELSE v

\* locale_dict.get(key, default) on an insertion-ordered dict
MapGet(m, key, default) ==
  IF \E i \in 1..Len(m) : m[i].k = key
  THEN Str(m[CHOOSE i \in 1..Len(m) : m[i].k = key].v)
  ELSE default

(***************************************************************************)
(* Metadata resolver: extract_compose_metadata                             *)
(***************************************************************************)
FieldNames == {"title", "icon", "description", "category", "author"}

\* a mapping none of whose keys is present: {} or a key-less section
NoFields == [f \in FieldNames |-> Absent]

\* a locale selection that looks up en before en_us
LocaleSelectEnFirst(m) ==
  MapGet(m, "en_US", MapGet(m, "en", MapGet(m, "en_us", Str(<<>>))))

\* value.get('en_US', value.get('en_us', value.get('en', '')))
LocaleSelect(m) ==
  MapGet(m, "en_US", MapGet(m, "en_us", MapGet(m, "en", Str(<<>>))))

\* if isinstance(value, dict): value = <locale selection>
Localized(v) == IF v.kind = "map" THEN LocaleSelect(v.m) ELSE v

\* description with its tagline fallback
DescriptionOf(casaos_info) ==
  LET description == Localized(Get(casaos_info.description))
      tagline == Get(casaos_info.tagline)
  IN IF Truthy(description) THEN description
     ELSE IF tagline.kind = "map" THEN LocaleSelect(tagline.m)
     ELSE IF tagline.kind = "str" THEN tagline
     ELSE description

category_mapping ==
  << [cat |-> <<"M", "e", "d", "i", "a">>,
      apps |-> << <<"p", "l", "e", "x">>,
                 <<"j", "e", "l", "l", "y", "f", "i", "n">>,
                 <<"e", "m", "b", "y">>,
                 <<"k", "o", "d", "i">>,
                 <<"s", "o", "n", "a", "r", "r">>,
                 <<"r", "a", "d", "a", "r", "r">>,
                 <<"l", "i", "d", "a", "r", "r">>,
                 <<"b", "a", "z", "a", "r", "r">>,
                 <<"t", "a", "u", "t", "u", "l", "l", "i">>,
                 <<"o", "v", "e", "r", "s", "e", "e", "r", "r">>,
                 <<"j", "e", "l", "l", "y", "s", "e", "e", "r", "r">>,
                 <<"n", "a", "v", "i", "d", "r", "o", "m", "e">> >>],
     [cat |-> <<"D", "o", "w", "n", "l", "o", "a", "d", "e", "r">>,
      apps |-> << <<"q", "b", "i", "t", "t", "o", "r", "r", "e", "n", "t">>,
                 <<"t", "r", "a", "n", "s", "m", "i", "s", "s", "i", "o", "n">>,
                 <<"d", "e", "l", "u", "g", "e">>,
                 <<"s", "a", "b", "n", "z", "b", "d">>,
                 <<"n", "z", "b", "g", "e", "t">>,
                 <<"j", "a", "c", "k", "e", "t", "t">>,
                 <<"p", "r", "o", "w", "l", "a", "r", "r">>,
                 <<"a", "u", "t", "o", "b", "r", "r">> >>],
     [cat |-> <<"C", "l", "o", "u", "d">>,
      apps |-> << <<"n", "e", "x", "t", "c", "l", "o", "u", "d">>,
                 <<"o", "w", "n", "c", "l", "o", "u", "d">>,
                 <<"s", "e", "a", "f", "i", "l", "e">>,
                 <<"s", "y", "n", "c", "t", "h", "i", "n", "g">>,
                 <<"f", "i", "l", "e", "b", "r", "o", "w", "s", "e", "r">> >>],
     [cat |-> <<"D", "a", "t", "a", "b", "a", "s", "e">>,
      apps |-> << <<"m", "a", "r", "i", "a", "d", "b">>,
                 <<"m", "y", "s", "q", "l">>,
                 <<"p", "o", "s", "t", "g", "r", "e", "s">>,
                 <<"m", "o", "n", "g", "o", "d", "b">>,
                 <<"r", "e", "d", "i", "s">>,
                 <<"i", "n", "f", "l", "u", "x", "d", "b">> >>],
     [cat |-> <<"N", "e", "t", "w", "o", "r", "k">>,
      apps |-> << <<"p", "i", "h", "o", "l", "e">>,
                 <<"a", "d", "g", "u", "a", "r", "d">>,
                 <<"n", "g", "i", "n", "x">>,
                 <<"t", "r", "a", "e", "f", "i", "k">>,
                 <<"c", "l", "o", "u", "d", "f", "l", "a", "r", "e", "d">>,
                 <<"w", "i", "r", "e", "g", "u", "a", "r", "d">>,
                 <<"d", "d", "n", "s">> >>],
     [cat |-> <<"H", "o", "m", "e", " ", "A", "u", "t", "o", "m", "a", "t", "i", "o", "n">>,
      apps |-> << <<"h", "o", "m", "e", "a", "s", "s", "i", "s", "t", "a", "n", "t">>,
                 <<"o", "p", "e", "n", "h", "a", "b">>,
                 <<"n", "o", "d", "e", "-", "r", "e", "d">>,
                 <<"m", "o", "s", "q", "u", "i", "t", "t", "o">>,
                 <<"z", "i", "g", "b", "e", "e", "2", "m", "q", "t", "t">>,
                 <<"e", "s", "p", "h", "o", "m", "e">> >>],
     [cat |-> <<"U", "t", "i", "l", "i", "t", "i", "e", "s">>,
      apps |-> << <<"p", "o", "r", "t", "a", "i", "n", "e", "r">>,
                 <<"w", "a", "t", "c", "h", "t", "o", "w", "e", "r">>,
                 <<"d", "u", "p", "l", "i", "c", "a", "t", "i">>,
                 <<"r", "e", "s", "i", "l", "i", "o">>,
                 <<"u", "p", "t", "i", "m", "e">>,
                 <<"g", "r", "a", "f", "a", "n", "a">>,
                 <<"n", "e", "t", "d", "a", "t", "a">> >>],
     [cat |-> <<"A", "I">>,
      apps |-> << <<"o", "l", "l", "a", "m", "a">>,
                 <<"s", "t", "a", "b", "l", "e", "-", "d", "i", "f", "f", "u", "s", "i", "o", "n">>,
                 <<"c", "h", "a", "t", "g", "p", "t">>,
                 <<"o", "p", "e", "n", "-", "w", "e", "b", "u", "i">>,
                 <<"a", "n", "y", "t", "h", "i", "n", "g", "l", "l", "m">>,
                 <<"f", "l", "o", "w", "i", "s", "e">>,
                 <<"d", "i", "f", "y">> >>],
     [cat |-> <<"N", "o", "t", "e", "s">>,
      apps |-> << <<"t", "r", "i", "l", "i", "u", "m">>,
                 <<"o", "b", "s", "i", "d", "i", "a", "n">>,
                 <<"j", "o", "p", "l", "i", "n">>,
                 <<"m", "e", "m", "o", "s">>,
                 <<"h", "e", "d", "g", "e", "d", "o", "c">>,
                 <<"l", "o", "g", "s", "e", "q">> >>],
     [cat |-> <<"D", "e", "v", "e", "l", "o", "p", "e", "r">>,
      apps |-> << <<"g", "i", "t", "e", "a">>,
                 <<"j", "e", "n", "k", "i", "n", "s">>,
                 <<"c", "o", "d", "e", "-", "s", "e", "r", "v", "e", "r">>,
                 <<"v", "s", "c", "o", "d", "e">> >>],
     [cat |-> <<"F", "i", "n", "a", "n", "c", "e">>,
      apps |-> << <<"f", "i", "r", "e", "f", "l", "y">>,
                 <<"a", "c", "t", "u", "a", "l">>,
                 <<"b", "u", "d", "g", "e", "t">> >>] >>

\* for cat, apps in category_mapping.items(): if any(app in app_name ...): break
RECURSIVE InferCategory(_, _, _)
InferCategory(i, app_name, category) ==
  IF i > Len(category_mapping) THEN category
  ELSE IF \E j \in 1..Len(category_mapping[i].apps) :
            Contains(category_mapping[i].apps[j], app_name)
       THEN Str(category_mapping[i].cat)
       ELSE InferCategory(i + 1, app_name, category)

\* a key of a YAML mapping: a string, or an integer written without quotes
StrKey(name) == [int |-> FALSE, name |-> name]
IntKey(digits) == [int |-> TRUE, name |-> digits]

\* the environment section of the first service: missing, a list of "K=V"
\* strings or a mapping, its items in order
NoEnvironment == [kind |-> "absent", items |-> <<>>]
EnvList(items) == [kind |-> "list", items |-> items]
EnvDict(items) == [kind |-> "dict", items |-> items]

\* environment = main_service.get('environment', []): a list is split at '='
\* into a dict (its keys are then strings), anything else is kept as it is
MetadataEnvironment(environment) == environment.items

\* the result of a call: it raised, or returned the mapping md with its
\* environment entry.  locals keeps the function's variables title and
\* description after locale selection.
NoLocals == [title |-> None, description |-> None]
Raise ==
  [raised |-> TRUE, md |-> NoFields, locals |-> NoLocals, environment |-> <<>>,
   port |-> Absent, memory |-> Absent, version |-> Absent, volumes |-> <<>>,
   keys |-> {}]
Return(md, locals, environment, port, memory, version, volumes, keys) ==
  [raised |-> FALSE, md |-> md, locals |-> locals, environment |-> environment,
   port |-> port, memory |-> memory, version |-> version, volumes |-> volumes,
   keys |-> keys]

\* return {}: the mapping without any key
NoMetadata == Return(NoFields, NoLocals, <<>>, Absent, Absent, Absent, <<>>, {})

\* ':' in text
HasColon(text) == \E i \in 1..Len(text) : text[i] = ":"

\* text.split(':')[0]
RECURSIVE BeforeFirstColon(_)
BeforeFirstColon(text) ==
  IF text = <<>> \/ text[1] = ":" THEN <<>>
  ELSE <<text[1]>> \o BeforeFirstColon(Tail(text))

\* text.split(':')[1] of a text with a colon
RECURSIVE AfterFirstColon(_)
AfterFirstColon(text) ==
  IF text[1] = ":" THEN BeforeFirstColon(Tail(text)) ELSE AfterFirstColon(Tail(text))

\* text.split(':')[-1]
RECURSIVE AfterLastColon(_)
AfterLastColon(text) ==
  IF HasColon(text) THEN AfterLastColon(Tail(text)) ELSE text

\* an entry of the ports list of the first service: a string (here
\* "host:container" or a bare port), or a mapping whose target and published
\* are values
PortText(text) == [kind |-> "str", a |-> Str(text), b |-> Absent]
PortPair(host, container) == PortText(host \o <<":">> \o container)
PortBare(port) == PortText(port)
PortDict(target, published) == [kind |-> "dict", a |-> target, b |-> published]

\* str(target) if target else ''
StrIfTruthy(v) == IF Truthy(v) THEN v ELSE Str(<<>>)

\* elif ':' in str(first_port): str(first_port).split(':')[0]; else
\* str(first_port)
PortOfText(text) ==
  IF HasColon(text) THEN Str(BeforeFirstColon(text)) ELSE Str(text)

\* ports = main_service.get('ports', []); if ports: metadata['port'] = the
\* target (else published) of a mapping, the first segment of a string with a
\* colon, or the entry; without ports the key is not set
MetadataPort(ports) ==
  IF ports = <<>> THEN Absent
  ELSE LET first_port == ports[1]
       IN IF first_port.kind = "dict"
          THEN StrIfTruthy(GetOr(first_port.a, GetOr(first_port.b, Str(<<>>))))
          ELSE PortOfText(first_port.a.s)

\* the tag of an image reference, taken as the content after the first colon
ImageTagFirstColon(image) ==
  IF HasColon(image.s) THEN Str(AfterFirstColon(image.s)) ELSE Str(<<>>)

\* main_service.get('image', '').split(':')[-1] if ':' in
\* main_service.get('image', '') else ''
ImageTag(image) ==
  IF HasColon(image.s) THEN Str(AfterLastColon(image.s)) ELSE Str(<<>>)

\* the default is computed before the lookup: ':' in None raises TypeError
VersionRaises(image) == image.kind \notin {"absent", "str"}

\* label_dict.get('casaos.version', <the tag of the image>)
MetadataVersion(label_version, image) ==
  GetOr(label_version, ImageTag(GetOr(image, Str(<<>>))))

\* the volumes section of the first service: missing, null or a list
NoVolumes == [kind |-> "absent", items |-> <<>>]
NullVolumes == [kind |-> "none", items |-> <<>>]
VolumeList(items) == [kind |-> "list", items |-> items]

\* volumes = main_service.get('volumes', []); volumes if volumes else []
MetadataVolumes(volumes) == volumes.items

\* the keys of the mapping returned for a compose document
MetadataKeys(compose_data) ==
  FieldNames \cup {"version", "volumes", "environment"}
    \cup (IF compose_data.ports # <<>> THEN {"port"} ELSE {})
    \cup (IF compose_data.deploy.kind # "absent" THEN {"memory"} ELSE {})

\* the deploy section of the first service: missing, or resources with limits
NoDeploy == [kind |-> "absent", memory |-> Absent]
DeployLimits(memory) == [kind |-> "limits", memory |-> memory]

\* if 'deploy' in main_service and 'resources' in main_service['deploy']:
\* metadata['memory'] = limits.get('memory', ''); otherwise the key is not set
MetadataMemory(deploy) ==
  IF deploy.kind = "absent" THEN Absent ELSE GetOr(deploy.memory, Str(<<>>))

\* if not compose_data
ComposeFalsy(compose_data) == compose_data.kind # "doc"

ExtractComposeMetadata(compose_data, conf_data) ==
  IF ComposeFalsy(compose_data)
  THEN NoMetadata
  ELSE IF compose_data.xkind = "null"
  THEN Raise   \* casaos_info is None: None.get raises AttributeError
  ELSE
    LET casaos_info == compose_data.x
        label_dict == compose_data.labels
        title == Localized(Get(casaos_info.title))
        md_title == Or(Or(title, Get(label_dict.title)),
                       GetOr(conf_data.title, Str(<<>>)))
        md_icon == Or(Or(Get(casaos_info.icon), Get(label_dict.icon)),
                      GetOr(conf_data.icon, Str(<<>>)))
        description == DescriptionOf(casaos_info)
        md_description == Or(Or(description, Get(label_dict.description)),
                             GetOr(conf_data.description, Str(<<>>)))
        category == Or(Or(Get(casaos_info.category), Get(label_dict.category)),
                       Get(conf_data.category))
        app_name == Or(md_title, GetOr(conf_data.title, Str(<<>>)))
        md_author == Or(Or(Get(casaos_info.author), Get(label_dict.author)),
                        GetOr(conf_data.author, Str(<<>>)))
        locals == [title |-> title,
                   description |-> Localized(Get(casaos_info.description))]
    IN IF ~Truthy(category) /\ app_name.kind # "str"
       THEN Raise   \* .lower() on a dict or on None raises AttributeError
       ELSE IF VersionRaises(compose_data.image)
       THEN Raise
       ELSE
         LET inferred == IF Truthy(category) THEN category
                         ELSE InferCategory(1, Lower(app_name.s), category)
         IN Return([title |-> md_title,
                    icon |-> md_icon,
                    description |-> md_description,
                    category |-> Or(inferred, Str(s_Uncategorized)),
                    author |-> md_author],
                   locals,
                   MetadataEnvironment(compose_data.environment),
                   MetadataPort(compose_data.ports),
                   MetadataMemory(compose_data.deploy),
                   MetadataVersion(compose_data.label_version, compose_data.image),
                   MetadataVolumes(compose_data.volumes),
                   MetadataKeys(compose_data))

\* main loop, record assembly: title, desc, icon, category, author
AssembleFields(compose_metadata, conf, folder) ==
  [title |-> Or(Or(Get(compose_metadata.title), Get(conf.title)), Str(folder)),
   description |-> Or(Or(Get(compose_metadata.description), Get(conf.description)),
                      Str(s_NoDescription)),
   icon |-> Or(Get(compose_metadata.icon), GetOr(conf.icon, Str(s_PlaceholderIcon))),
   category |-> GetOr(compose_metadata.category, Str(s_Uncategorized)),
   author |-> GetOr(compose_metadata.author, Str(s_Unknown))]

\* main loop, except handler: the minimal record of a failed folder
PlaceholderFields(folder) ==
  [title |-> Str(folder),
   description |-> Str(s_ErrorLoading),
   icon |-> Str(s_PlaceholderIcon),
   category |-> Str(s_Error),
   author |-> Str(s_Unknown)]

(***************************************************************************)
(* Inputs of the resolver: RawMetadata bundles                             *)
(***************************************************************************)
MaxLocales == 2

LocaleKeys == {"en_US", "en_us", "en", "de_DE", "zh_CN"}

\* each locale carries its own text, so that the selected entry is visible
LocaleText(k) ==
  CASE k = "en_US" -> s_enUS
    [] k = "en_us" -> s_enus
    [] k = "en" -> s_en
    [] k = "de_DE" -> s_de
    [] OTHER -> s_zh

\* the dicts of at most MaxLocales locales, in every insertion order
LocaleMaps ==
  UNION { { [i \in 1..n |-> [k |-> ks[i], v |-> LocaleText(ks[i])]] :
              ks \in { f \in [1..n -> LocaleKeys] :
                         \A i, j \in 1..n : i # j => f[i] # f[j] } } :
          n \in 0..MaxLocales }

\* the vendor-extension block also carries a tagline
NoBlock == [f \in FieldNames \cup {"tagline"} |-> Absent]

\* a compose document: its x-casaos block (absent, null or a mapping) and the
\* casaos.* labels of its first service
Compose(xkind, x, labels) ==
  [kind |-> "doc", xkind |-> xkind, x |-> x, labels |-> labels,
   environment |-> NoEnvironment, ports |-> <<>>, deploy |-> NoDeploy,
   image |-> Absent, label_version |-> Absent, volumes |-> NoVolumes]

\* no compose document was found: get_docker_compose returned {}
NoCompose ==
  [kind |-> "none", xkind |-> "absent", x |-> NoBlock, labels |-> NoFields,
   environment |-> NoEnvironment, ports |-> <<>>, deploy |-> NoDeploy,
   image |-> Absent, label_version |-> Absent, volumes |-> NoVolumes]

Folders == {s_app, s_plexdir}

\* bundles that vary the three sources of the title
TitleBundles ==
  { [compose |-> c, conf |-> [NoFields EXCEPT !.title = ct]] :
      c \in {NoCompose}
            \cup { Compose("map", [NoBlock EXCEPT !.title = t], [NoFields EXCEPT !.title = l]) :
                     t \in {Absent, None, Str(s_A), Str(s_Jellyfin)}
                           \cup { Dict(m) : m \in LocaleMaps },
                     l \in {Absent, Str(s_B)} },
      ct \in {Absent, None, Str(s_C), Str(s_RedisBudget),
              Dict(<<[k |-> "en_US", v |-> s_enUS]>>)} }

\* bundles that vary the sources of the description
DescriptionBundles ==
  { [compose |-> c, conf |-> [NoFields EXCEPT !.description = cd]] :
      c \in {NoCompose}
            \cup { Compose("map", [NoBlock EXCEPT !.description = d, !.tagline = t],
                           [NoFields EXCEPT !.description = l]) :
                     d \in {Absent, Str(s_D)} \cup { Dict(m) : m \in LocaleMaps },
                     t \in {Absent, Str(s_T), Dict(<<[k |-> "en", v |-> s_en]>>),
                            Dict(<<[k |-> "de_DE", v |-> s_de]>>)},
                     l \in {Absent, Str(s_B)} },
      cd \in {Absent, Str(s_C), Dict(<<[k |-> "en_US", v |-> s_enUS]>>)} }

\* one field given by the block (v), the labels (l) and the conf file (c)
Sources(f, v, l, c) ==
  [compose |-> Compose("map", [NoBlock EXCEPT ![f] = v], [NoFields EXCEPT ![f] = l]),
   conf |-> [NoFields EXCEPT ![f] = c]]

\* bundles that vary the three sources of icon, category and author, under
\* three titles; and the same conf files with no compose document, or with a
\* compose document whose x-casaos block is missing or null
PlainBundles ==
  LET vs == {Absent, Str(<<>>), Str(s_A)}
      ls == {Absent, Str(s_B)}
      cs == {Absent, Str(s_C)}
      confs == { [title |-> t, icon |-> i, description |-> Absent,
                  category |-> c, author |-> a] :
                   t \in {Absent, Str(s_Jellyfin), Str(s_RedisBudget)},
                   i \in cs, c \in cs, a \in cs }
      blocks == { [NoBlock EXCEPT !.icon = i, !.category = c, !.author = a] :
                    i \in vs, c \in vs, a \in vs }
      labels == { [NoFields EXCEPT !.icon = i, !.category = c, !.author = a] :
                    i \in ls, c \in ls, a \in ls }
  IN { [compose |-> Compose("map", x, l), conf |-> cf] :
         x \in blocks, l \in labels, cf \in confs }
     \cup { [compose |-> c, conf |-> cf] :
              c \in {NoCompose} \cup { Compose(k, NoBlock, l) :
                                         k \in {"absent", "null"}, l \in labels },
              cf \in confs }

Bundles == TitleBundles \cup DescriptionBundles \cup PlainBundles

\* the ports lists of the first service: none; a bare port; "host:container";
\* "ip:host:container"; mappings with target and published, with published
\* only, with a null target, with neither; and a list of two entries
s_ip == <<"1", ".", "1">>
ServicePorts ==
  {<<>>,
   <<PortBare(s_port)>>,
   <<PortPair(s_port, s_one)>>,
   <<PortText(s_ip \o <<":">> \o s_port \o <<":">> \o s_one)>>,
   <<PortDict(Str(s_one), Str(s_port))>>,
   <<PortDict(Absent, Str(s_port))>>,
   <<PortDict(None, Str(s_port))>>,
   <<PortDict(Absent, Absent)>>,
   <<PortPair(s_port, s_one), PortBare(s_one)>>}

\* the image of the first service: missing, null, "a", "a:1", "r:80/a:1" and
\* "r:80/a"
ServiceImages ==
  {Absent, None, Str(s_A), Str(s_A \o <<":">> \o s_one),
   Str(s_B \o <<":">> \o s_port \o <<"/">> \o s_A \o <<":">> \o s_one),
   Str(s_B \o <<":">> \o s_port \o <<"/">> \o s_A)}

\* bundles that vary the keys of the first service, with and without a
\* vendor-extension block; and the bundles without a compose document
ServiceBundles ==
  { [compose |-> [Compose(k, [NoBlock EXCEPT !.title = Str(s_A)], NoFields)
                    EXCEPT !.ports = p, !.image = i, !.label_version = v,
                           !.volumes = vol, !.deploy = d],
     conf |-> NoFields] :
      k \in {"map", "null"}, p \in ServicePorts, i \in ServiceImages,
      v \in {Absent, Str(s_C), Str(<<>>)},
      vol \in {NoVolumes, NullVolumes, VolumeList(<<s_D>>)},
      d \in {NoDeploy, DeployLimits(Str(s_mem))} }
  \cup { [compose |-> c, conf |-> [NoFields EXCEPT !.title = Str(s_C)]] :
           c \in {NoCompose, [NoCompose EXCEPT !.kind = "null"]} }

(***************************************************************************)
(* get_docker_compose                                                      *)
(***************************************************************************)
ComposeTTL == 86400

compose_files == <<"docker-compose.yml", "docker-compose.yaml", "compose.yml", "compose.yaml">>

\* yaml.safe_load gave None: an empty document
NullCompose == [NoCompose EXCEPT !.kind = "null"]

\* the document kept in the repository under candidate i: each candidate has
\* its own title, so that a result tells which candidate it came from; the
\* first sets its environment as a list, the second as a mapping with an
\* integer key, the third has a null x-casaos block
CandidateDoc(i) ==
  [Compose(IF i = 3 THEN "null" ELSE "map",
           [NoBlock EXCEPT !.title = IF i = 3 THEN Absent ELSE Str(<<s_A, s_B, s_C, s_D>>[i])],
           NoFields)
     EXCEPT !.environment =
       <<EnvList(<<[key |-> StrKey(s_T), value |-> s_A]>>),
         EnvDict(<<[key |-> IntKey(s_one), value |-> s_B]>>),
         NoEnvironment,
         NoEnvironment>>[i],
            !.ports =
       <<<<PortPair(s_port, s_one)>>, <<PortDict(Absent, Str(s_port))>>, <<>>, <<>>>>[i],
            !.deploy =
       <<DeployLimits(Str(s_mem)), DeployLimits(Absent), NoDeploy, NoDeploy>>[i]]

\* a text: YAML of a document, YAML of null, or text that is not YAML
YamlText(doc) == [form |-> "yaml", doc |-> doc]
NullText == [form |-> "null", doc |-> NoCompose]
InvalidText == [form |-> "invalid", doc |-> NoCompose]

\* yaml.safe_load raises yaml.YAMLError on this text
YamlError(text) == text.form = "invalid"

\* yaml.safe_load(text), for a text it accepts
SafeLoad(text) == IF text.form = "null" THEN NullCompose ELSE text.doc

\* yaml.dump(compose_data)
YamlDump(compose_data) ==
  IF compose_data.kind = "doc" THEN YamlText(compose_data) ELSE NullText

\* a cache file: missing, or its last-modified time and its text
NoFile == [exists |-> FALSE, mtime |-> 0, text |-> InvalidText]
File(mtime, text) == [exists |-> TRUE, mtime |-> mtime, text |-> text]

\* os.path.exists(cache_file) and file_age < 86400 and the file parses
ComposeCacheUsable(file, clock) ==
  /\ file.exists
  /\ clock - file.mtime < ComposeTTL
  /\ ~YamlError(file.text)

\* the answers of the remote host to one request for candidate i
Responses(i) ==
  { [status |-> 200, text |-> t] : t \in {YamlText(CandidateDoc(i)), NullText, InvalidText} }
  \cup { [status |-> s, text |-> InvalidText] : s \in {404, 500} }
  \cup { [status |-> 0, text |-> InvalidText] }   \* 0: timeout or network error

\* a candidate that ends the search with a 200 answer whose text safe_load accepts
AcceptsAny200(resp) == resp.status = 200

\* if response.status_code == 200: compose_data = yaml.safe_load(...); return
\* (a YAMLError continues with the next candidate, as every other answer does)
Accepts(resp) == resp.status = 200 /\ ~YamlError(resp.text)

\* what get_docker_compose returns for an accepted answer
Accepted(resp) == IF YamlError(resp.text) THEN NoCompose ELSE SafeLoad(resp.text)

\* the for loop over compose_files, given the answer to each candidate
RECURSIVE FetchCompose(_, _)
FetchCompose(i, resps) ==
  IF i > Len(compose_files) THEN NoCompose
  ELSE IF Accepts(resps[i]) THEN Accepted(resps[i])
  ELSE FetchCompose(i + 1, resps)

\* the outcomes of writing a cache file: written, left as it was (open failed)
\* or left truncated (the dump failed after the file was opened)
Written(file, clock, text) ==
  {File(clock, text), file, File(clock, InvalidText)}

(***************************************************************************)
(* Main loop: the app-record cache and the run tracker                     *)
(***************************************************************************)
AppTTL == 86400

\* REPOS: the first two of the configured repositories, as "owner/repo"
REPOS == <<"IceWhaleTech/CasaOS-AppStore", "WisdomSky/CasaOS-LinuxServer-AppStore">>

\* a value of repo_stats_cache: a mapping with the keys stars, forks and
\* default_branch, or a mapping without them
Stats(stars, forks) == [shape |-> "stats", stars |-> stars, forks |-> forks]
NoStatsKeys == [shape |-> "empty", stars |-> 0, forks |-> 0]

\* return {"stars": 0, "forks": 0, "default_branch": "main"}
DefaultStats == Stats(0, 0)

\* a timestamp string: None, or ISO-8601 with or without the UTC suffix "Z"
NoDate == [set |-> FALSE, t |-> 0, utc |-> FALSE]
IsoZ(t) == [set |-> TRUE, t |-> t, utc |-> TRUE]

\* datetime.now().isoformat(): local time, no UTC offset
NowIso(clock) == [set |-> TRUE, t |-> clock, utc |-> FALSE]

\* a datetime: naive, or aware of its UTC offset
NoTime == [set |-> FALSE, t |-> 0, aware |-> FALSE]

\* datetime.fromisoformat(s.replace("Z", "+00:00")): an offset makes it aware
FromIsoformat(s) == [set |-> TRUE, t |-> s.t, aware |-> s.utc]

\* a > b raises TypeError between a naive and an aware datetime
CompareRaises(a, b) == a.aware # b.aware

\* is_new decided without regard to the cache file when the dates do not compare
IsNewWithoutCacheCheck(last_run_time, created, cache_exists) ==
  IF last_run_time.set /\ created.set
  THEN IF CompareRaises(FromIsoformat(created), last_run_time)
       THEN FALSE
       ELSE FromIsoformat(created).t > last_run_time.t
  ELSE TRUE

\* is_new falling back to the cache file only when there is no prior run
IsNewOnlyWithoutPriorRun(last_run_time, created, cache_exists) ==
  IF last_run_time.set /\ created.set
  THEN IF CompareRaises(FromIsoformat(created), last_run_time)
       THEN FALSE
       ELSE FromIsoformat(created).t > last_run_time.t
  ELSE IF last_run_time.set THEN FALSE
  ELSE ~cache_exists

\* is_new = False; if last_run_time and created: try: is_new = created_dt >
\* last_run_time except: pass; elif not os.path.exists(cache_file): is_new = True
IsNew(last_run_time, created, cache_exists) ==
  IF last_run_time.set /\ created.set
  THEN IF CompareRaises(FromIsoformat(created), last_run_time)
       THEN FALSE
       ELSE FromIsoformat(created).t > last_run_time.t
  ELSE ~cache_exists

\* f"https://github.com/{owner}/{repo}/tree/{branch}/Apps/{folder}"
TreeUrl(repo, dir) == Str(<<repo, "/", "A", "p", "p", "s", "/">> \o dir)

\* app_data of a folder whose chain succeeded
AppData(f, repo, url, created, port, memory, environment, compose_available, repo_stats, is_new, updated_at) ==
  [title |-> f.title,
   description |-> f.description,
   icon |-> f.icon,
   category |-> f.category,
   repo |-> repo,
   url |-> url,
   author |-> f.author,
   created |-> created,
   stars |-> repo_stats.stars,
   forks |-> repo_stats.forks,
   port |-> port,
   memory |-> memory,
   environment |-> environment,
   compose_available |-> compose_available,
   is_new |-> is_new,
   updated_at |-> updated_at]

\* app_data = {}
NoAppData ==
  AppData(NoFields, "", Str(<<>>), NoDate, None, None, <<>>, FALSE, DefaultStats, FALSE, 0)

\* app_data of a folder whose chain raised
PlaceholderAppData(dir, repo, repo_stats, updated_at) ==
  AppData(PlaceholderFields(dir), repo, TreeUrl(repo, dir), NoDate, None, None, <<>>, FALSE,
          repo_stats, FALSE, updated_at)

\* a JSON text: of a value, or text that is not JSON (a truncated file)
JsonText(value) == [form |-> "json", value |-> value]
InvalidJson(value) == [form |-> "invalid", value |-> value]

\* json.load raises on this text
JsonError(text) == text.form = "invalid"

\* json.load(f), for a text it accepts
JsonLoad(text) == text.value

\* json.dump writes every mapping key as a string
JsonKey(key) == StrKey(key.name)

\* json.dump(app_data, f)
JsonDump(app_data) ==
  LET env == app_data.environment
  IN JsonText([app_data EXCEPT !.environment =
                 [i \in 1..Len(env) |-> [key |-> JsonKey(env[i].key),
                                         value |-> env[i].value]]])

\* json.dump({"last_run": datetime.now().isoformat()}, f)
LastRunDump(clock) == JsonText(NowIso(clock))

\* a JSON cache file that does not exist
NoAppFile == [exists |-> FALSE, mtime |-> 0, text |-> InvalidJson(NoAppData)]
NoLastRunFile == [exists |-> FALSE, mtime |-> 0, text |-> InvalidJson(NoDate)]

\* the app cache is reused when file_age <= 86400
AppCacheUsableAtTTL(file, clock) ==
  /\ file.exists
  /\ clock - file.mtime <= AppTTL
  /\ ~JsonError(file.text)

\* os.path.exists(cache_file) and file_age < 86400 and json.load succeeds
AppCacheUsable(file, clock) ==
  /\ file.exists
  /\ clock - file.mtime < AppTTL
  /\ ~JsonError(file.text)

\* the cached record comes back with is_new cleared
LoadAppCacheNotNew(file) == [JsonLoad(file.text) EXCEPT !.is_new = FALSE]

\* with open(cache_file, 'r') as f: app_data = json.load(f)
LoadAppCache(file) == JsonLoad(file.text)

\* last_run_time = datetime.fromisoformat(data.get('last_run', '')), or None
\* when the file is missing or unreadable
LoadLastRun(file) ==
  IF file.exists /\ ~JsonError(file.text)
  THEN FromIsoformat(JsonLoad(file.text))
  ELSE NoTime

\* an except handler that caches its placeholder record
ExceptCacheFileWritten(file, clock, record) == File(clock, JsonDump(record))

\* the except handler has no cache write: the write of the try block was not
\* reached, and the file stays as it was
ExceptCacheFile(file, clock, record) == file

\* a write that removes the file when it fails
WrittenJsonOrRemoved(file, clock, text) ==
  {File(clock, text), [exists |-> FALSE, mtime |-> 0, text |-> file.text]}

\* the outcomes of writing a JSON cache file: written, left as it was (open
\* failed) or left truncated (the dump failed after the file was opened)
WrittenJson(file, clock, text) ==
  {File(clock, text), file, File(clock, InvalidJson(text.value))}

\* the answers to the four candidates in which candidate k is the first one
\* found (none when k = 0)
ComposeAnswers ==
  { [i \in 1..Len(compose_files) |->
       IF i = k THEN [status |-> 200, text |-> YamlText(CandidateDoc(i))]
       ELSE [status |-> 404, text |-> InvalidText]] : k \in 0..3 }

\* the conf.json files of the folder: none (or a failed request), or a title
ConfFiles == {NoFields, [NoFields EXCEPT !.title = Str(s_C)]}

\* a record that keeps the creation date only for a folder cached before
AssembledRecordKnownOnly(md, compose_data, conf_data, dir, repo, created_at, repo_stats, last_run, cache_exists, clock) ==
  AppData(AssembleFields(md.md, conf_data, dir),
          repo,
          TreeUrl(repo, dir),
          IF cache_exists THEN created_at ELSE NoDate,
          Get(md.port),
          Get(md.memory),
          md.environment,
          ~ComposeFalsy(compose_data),
          repo_stats,
          IsNew(last_run, created_at, cache_exists),
          clock)

\* title = ..., is_new = ..., app_data = {...}: the record of a folder whose
\* chain did not raise, from the resolver's result md
AssembledRecord(md, compose_data, conf_data, dir, repo, created_at, repo_stats, last_run, cache_exists, clock) ==
  AppData(AssembleFields(md.md, conf_data, dir),
          repo,
          TreeUrl(repo, dir),
          created_at,
          Get(md.port),
          Get(md.memory),
          md.environment,
          ~ComposeFalsy(compose_data),
          repo_stats,
          IsNew(last_run, created_at, cache_exists),
          clock)

(***************************************************************************)
(* Aggregation pipeline: repository statistics, listings, the sort         *)
(***************************************************************************)
StatsTTL == 3600

\* the number of folders that the repositories list in a run, all together
MaxApps == 3

\* the names of the directories under Apps/
FolderName(i) == <<"a", "p", "p", <<"1", "2", "3", "4", "5">>[i]>>

\* list_app_folders: the names of the directories, [] after any failure
Listings(most) == { [i \in 1..n |-> FolderName(i)] : n \in 0..most }

\* the statistics the repository API reports
RemoteStats == Stats(5, 1)

\* cache/repo_stats_<owner>_<repo>.json as a run finds it: missing, recent and
\* well-formed, recent JSON without the keys, recent and not JSON, an hour old
NoStatsFile == [exists |-> FALSE, mtime |-> 0, text |-> InvalidJson(DefaultStats)]
StatsFiles(clock) ==
  {NoStatsFile,
   File(clock, JsonText(RemoteStats)),
   File(clock, JsonText(NoStatsKeys)),
   File(clock, InvalidJson(DefaultStats)),
   File(clock - StatsTTL, JsonText(RemoteStats))}

\* the answers of the repository API
StatsAnswers == {[status |-> 200, stats |-> RemoteStats],
                 [status |-> 403, stats |-> DefaultStats]}

\* no request was made
NoAnswer == [status |-> 0, stats |-> DefaultStats]

\* get_repo_stats that also returns a cached value of exactly an hour
GetRepoStatsAtTTL(file, clock, response) ==
  IF file.exists /\ clock - file.mtime <= StatsTTL /\ ~JsonError(file.text)
  THEN JsonLoad(file.text)
  ELSE IF response.status = 200 THEN response.stats
  ELSE DefaultStats

\* the default is returned when the cache write failed
StatsResultIfWritten(stats, put) == IF put = "failed" THEN DefaultStats ELSE stats

\* return stats follows the try block of the cache write, whose exception is
\* printed and swallowed
StatsResult(stats, put) == stats

\* the cache file is returned: it exists, is younger than an hour and loads
StatsCacheUsable(file, clock) ==
  file.exists /\ clock - file.mtime < StatsTTL /\ ~JsonError(file.text)

\* how often get_repo_stats is called for the repository
MaxStatsCalls == 3

\* the time between two calls
StatsGaps == {1, StatsTTL - 1, StatsTTL}

\* get_repo_stats: the cached value when the file is younger than an hour and
\* loads, else the statistics of a 200 answer, else the default
GetRepoStats(file, clock, response) ==
  IF file.exists /\ clock - file.mtime < StatsTTL /\ ~JsonError(file.text)
  THEN JsonLoad(file.text)
  ELSE IF response.status = 200 THEN response.stats
  ELSE DefaultStats

\* repo_stats["stars"] raises KeyError
StarsRaises(repo_stats) == repo_stats.shape # "stats"

\* the creation dates of the pipeline's folders
PipelineDates == {NoDate, IsoZ(5)}

\* a JSON value that is a non-empty mapping without the keys of a record
WrongShape == [title |-> Str(s_A)]

\* the record an earlier run cached for the folder
CachedRecord(dir, repo, clock) ==
  AppData(AssembleFields(NoFields, NoFields, dir), repo, TreeUrl(repo, dir),
          IsoZ(14), None, None, <<>>,
          FALSE, DefaultStats, FALSE, clock - 1)

\* cache/app_<owner>_<repo>_<folder>.json as a run finds it: missing, recent
\* with a record, recent with another mapping, recent and not JSON, a day old
AppFiles(dir, repo, clock) ==
  {NoAppFile,
   File(clock - 1, JsonText(CachedRecord(dir, repo, clock))),
   File(clock - 1, JsonText(WrongShape)),
   File(clock - 1, InvalidJson(NoAppData)),
   File(clock - AppTTL, JsonText(CachedRecord(dir, repo, clock)))}

\* the compose documents of the pipeline's folders: one that resolves, one
\* whose x-casaos block is null
PipelineComposes == {CandidateDoc(4), CandidateDoc(3)}

\* the width of the timestamps
DateWidth == 6

\* the timestamp as the text the commit history gives, digit by digit
RECURSIVE DigitsOf(_, _)
DigitsOf(n, width) ==
  IF width = 0 THEN <<>> ELSE Append(DigitsOf(n \div 10, width - 1), n % 10)
IsoText(date) == DigitsOf(date.t, DateWidth)

\* a < b for two strings
RECURSIVE StrLess(_, _)
StrLess(a, b) ==
  IF b = <<>> THEN FALSE
  ELSE IF a = <<>> THEN TRUE
  ELSE IF a[1] # b[1] THEN a[1] < b[1]
  ELSE StrLess(Tail(a), Tail(b))

\* key=lambda x: x["created"] or ""
SortKey(x) == IF x.created.set THEN IsoText(x.created) ELSE <<>>

\* x["created"] raises KeyError
KeyRaises(x) == "created" \notin DOMAIN x

\* the place of x in a list sorted in ascending order
RECURSIVE InsertAscending(_, _)
InsertAscending(x, sorted) ==
  IF sorted = <<>> THEN <<x>>
  ELSE IF StrLess(SortKey(x), SortKey(sorted[1])) THEN <<x>> \o sorted
  ELSE <<sorted[1]>> \o InsertAscending(x, Tail(sorted))

\* the place of x in a list sorted with reverse=True: before the first element
\* of a smaller key, so that equal keys keep their order
RECURSIVE Insert(_, _)
Insert(x, sorted) ==
  IF sorted = <<>> THEN <<x>>
  ELSE IF StrLess(SortKey(sorted[1]), SortKey(x)) THEN <<x>> \o sorted
  ELSE <<sorted[1]>> \o Insert(x, Tail(sorted))

\* apps.sort(key=lambda x: x["created"] or "", reverse=True)
RECURSIVE Sorted(_)
Sorted(list) ==
  IF list = <<>> THEN <<>>
  ELSE Insert(list[Len(list)], Sorted(SubSeq(list, 1, Len(list) - 1)))

(***************************************************************************)
(* Exporter: generate_cosmos_market.py                                     *)
(***************************************************************************)
DigitChars == <<"0", "1", "2", "3", "4", "5", "6", "7", "8", "9">>

\* a character that [^a-zA-Z0-9\s-] does not match
IsIdChar(c) ==
  \/ \E i \in 1..Len(UpperCase) : c = UpperCase[i] \/ c = LowerCase[i]
  \/ \E i \in 1..Len(DigitChars) : c = DigitChars[i]
  \/ c = " "
  \/ c = "-"

\* re.sub(r'[^a-zA-Z0-9\s-]', '', str(name))
KeepIdChars(s) == SelectSeq(s, IsIdChar)

\* the text without its leading white space
RECURSIVE DropSpaces(_)
DropSpaces(s) ==
  IF s # <<>> /\ s[1] = " " THEN DropSpaces(Tail(s)) ELSE s

\* re.sub(r'\s+', '-', sanitized)
RECURSIVE SpacesToHyphen(_)
SpacesToHyphen(s) ==
  IF s = <<>> THEN <<>>
  ELSE IF s[1] = " " THEN <<"-">> \o SpacesToHyphen(DropSpaces(s))
  ELSE <<s[1]>> \o SpacesToHyphen(Tail(s))

\* .strip('-')
RECURSIVE StripHyphens(_)
StripHyphens(s) ==
  IF s # <<>> /\ s[1] = "-" THEN StripHyphens(Tail(s))
  ELSE IF s # <<>> /\ s[Len(s)] = "-" THEN StripHyphens(SubSeq(s, 1, Len(s) - 1))
  ELSE s

sanitize_id(name) == Lower(StripHyphens(SpacesToHyphen(KeepIdChars(name))))

\* s.split('/')[-1]
RECURSIVE LastSegment(_)
LastSegment(s) ==
  IF \E i \in 1..Len(s) : s[i] = "/"
  THEN LastSegment(Tail(s))
  ELSE s

\* app.get('repo', '').split('/')[-1][:10].lower()
RepoSuffix(repo) ==
  LET name == LastSegment(repo)
  IN Lower(SubSeq(name, 1, IF Len(name) < 10 THEN Len(name) ELSE 10))

\* str(counter)
RECURSIVE Decimal(_)
Decimal(n) ==
  IF n < 10 THEN <<DigitChars[n + 1]>>
  ELSE Decimal(n \div 10) \o <<DigitChars[(n % 10) + 1]>>

\* extract_app_folder_from_url: re.search(r'/Apps/([^/]+)/?$', url) matches
s_AppsDir == <<"/", "A", "p", "p", "s", "/">>
HasAppFolder(url) ==
  \E i \in 1..Len(url) :
    /\ i + Len(s_AppsDir) - 1 <= Len(url)
    /\ SubSeq(url, i, i + Len(s_AppsDir) - 1) = s_AppsDir
    /\ LET rest == SubSeq(url, i + Len(s_AppsDir), Len(url))
           name == IF rest # <<>> /\ rest[Len(rest)] = "/"
                   THEN SubSeq(rest, 1, Len(rest) - 1) ELSE rest
       IN name # <<>> /\ \A k \in 1..Len(name) : name[k] # "/"

\* a compose URL derived from the repository alone
HasComposeUrlRepoOnly(app) == app.repo # <<>>

\* convert_app_to_cosmos: compose_url is set `if repo and folder`
HasComposeUrl(app) == app.repo # <<>> /\ HasAppFolder(app.url)

\* the id after the repo suffix, without the counter loop
SuffixedOnly(id, original_id, counter, seen) == id

\* while cosmos_app['id'] in seen_ids: cosmos_app['id'] =
\* f"{original_id}-{counter}"; counter += 1
RECURSIVE FreeId(_, _, _, _)
FreeId(id, original_id, counter, seen) ==
  IF id \notin seen THEN id
  ELSE FreeId(original_id \o <<"-">> \o Decimal(counter), original_id,
              counter + 1, seen)

\* the id under which main() appends the listing of app
ListingId(app, seen) ==
  LET original_id == sanitize_id(app.title)
      suffixed == IF original_id \in seen
                  THEN original_id \o <<"-">> \o RepoSuffix(app.repo)
                  ELSE original_id
  IN FreeId(suffixed, original_id, 1, seen)

\* the number of apps in apps_data.json
MaxExport == 3

\* the apps of apps_data.json: titles that sanitize to the same id, that look
\* like an id with a repo suffix or with a counter; two repositories; an app
\* without compose, one whose URL names no folder, one without a repository
\* and one whose URL goes on after the folder
s_R1 == <<"o", "/", "R", "1">>
s_R2 == <<"o", "/", "R", "2">>
ExportTitles ==
  {<<"P", "l", "e", "x">>,
   <<"p", "l", "e", "x", "!">>,
   <<"P", "l", "e", "x", " ", "1">>,
   <<"P", "l", "e", "x", "-", "r", "1">>}
ExportApp(title, repo, compose_available, url) ==
  [title |-> title, repo |-> repo, compose_available |-> compose_available,
   url |-> url]
ExportApps ==
  { ExportApp(t, r, TRUE, r \o s_AppsDir \o s_app) : t \in ExportTitles, r \in {s_R1, s_R2} }
  \cup {ExportApp(<<"P", "l", "e", "x">>, s_R1, FALSE, s_R1 \o s_AppsDir \o s_app),
        ExportApp(<<"P", "l", "e", "x">>, s_R1, TRUE, s_R1),
        ExportApp(<<"P", "l", "e", "x">>, <<>>, TRUE, s_R1 \o s_AppsDir \o s_app),
        ExportApp(<<"P", "l", "e", "x">>, s_R1, TRUE,
                  s_R1 \o s_AppsDir \o s_app \o <<"/">> \o s_app)}
ExportInputs ==
  UNION { [1..n -> ExportApps] : n \in 0..MaxExport }

(***************************************************************************)
(* Screenshots: get_app_screenshots                                        *)
(***************************************************************************)
\* the index cache is returned while file_age < 86400
ShotTTL == 86400

\* how many of the candidate filenames a call probes
MaxPatterns == 3

\* how often get_app_screenshots is called for the app
MaxShotCalls == 3

screenshot_patterns ==
  <<"screenshot-1.png", "screenshot-2.png", "screenshot-3.png", "screenshot-4.png",
    "screenshot-5.png", "screenshot1.png", "screenshot2.png", "screenshot3.png",
    "screen1.png", "screen2.png", "screen3.png",
    "image1.png", "image2.png", "image3.png",
    "preview1.png", "preview2.png", "preview3.png",
    "demo1.png", "demo2.png", "demo3.png">>

\* the candidates probed: the first MaxPatterns of screenshot_patterns
ShotCandidates == SubSeq(screenshot_patterns, 1, MaxPatterns)

\* screenshot_data; an entry of screenshots is kept as its filename, which
\* determines its local_path and url
ScreenshotData(shots, clock) ==
  [screenshots |-> shots, count |-> Len(shots), updated_at |-> NowIso(clock)]

\* what the call finds at cache_file: no file, a file of 24 hours or more, a
\* younger file json.load raises on, a younger file json.load accepts
IndexKind(file, clock) ==
  IF ~file.exists THEN "absent"
  ELSE IF ~(clock - file.mtime < ShotTTL) THEN "stale"
  ELSE IF JsonError(file.text) THEN "corrupt"
  ELSE "fresh"

\* the local path is not looked at
LocalPathIgnored(screenshot_file, files) == FALSE

\* os.path.exists(local_path)
AlreadyDownloaded(screenshot_file, files) == screenshot_file \in files

\* how a request for a candidate ends: an image that is saved; no image (an
\* exception, another status, another content type); an image whose file was
\* opened but not written
ProbeOutcomes == {"image", "none", "partial"}

\* how writing the index cache ends: written; not opened; opened and cut short
IndexOutcomes == {"written", "unchanged", "truncated"}

\* what the call found on entry, before the caller's first call
NoEntry == [files |-> {}, index |-> "absent"]

(***************************************************************************)
(* Idle values of the components specified further down                    *)
(***************************************************************************)
NoShotFile == [exists |-> FALSE, mtime |-> 0, text |-> InvalidJson(ScreenshotData(<<>>, 0))]
NoGiven == [compose |-> NoCompose, conf |-> NoFields, created |-> NoDate,
            last_run |-> NoTime]

(***************************************************************************)
(* State                                                                   *)
(***************************************************************************)
VARIABLES
  bundle,            \* resolver: the RawMetadata of the folder, compose and conf
  folder,            \* resolver: the folder name
  compose_metadata,  \* resolver: the result of extract_compose_metadata
  fields,            \* resolver: title, description, icon, category, author
  rpc,               \* resolver: "input", "resolved", "assembled", "failed"
  now,               \* the wall clock, in seconds
  compose_cache,     \* compose_cache/compose_<owner>_<repo>_<folder>.yml
  cpc,               \* get_docker_compose: "start", "fetch", "done"
  ci,                \* get_docker_compose: index of the next candidate
  requests,          \* get_docker_compose: the requests made and their answers
  compose,           \* get_docker_compose: the value returned
  last_run_file,     \* cache/last_run.json
  app_cache,         \* cache/app_<owner>_<repo>_<folder>.json
  pc,                \* main script: the statement reached
  last_run_time,     \* main script: the previous run's timestamp, or None
  conf,              \* main loop: conf.json of the folder
  created,           \* main loop: the creation date of the folder
  app_data,          \* main loop: the record of the folder
  apps,              \* main script: the output collection
  hit,               \* the record was read from the app cache
  failed,            \* the except handler of the folder ran
  calls,             \* the connector functions called for the folder in this run
  run,               \* the number of the run
  cache_at_start,    \* the app cache file as the run found it
  persisted,         \* the last record a run built and wrote to the app cache
  repo_i,            \* pipeline: index in REPOS of the repository in progress
  repo_stats_cache,  \* pipeline: the statistics of the repositories begun
  folders,           \* pipeline: the listing of the repository in progress
  folder_i,          \* pipeline: index in folders of the next folder
  reads,             \* pipeline: how often last_run.json was read
  saves,             \* pipeline: how often last_run.json was written
  listed,            \* pipeline: the folders listed, as <<repo index, name>>
  raised,            \* pipeline: the folders whose chain raised
  shot_cache,        \* screenshots: cache/screenshots_<owner>_<repo>_<folder>.json
  local_files,       \* screenshots: the image files in the app's directory
  si,                \* screenshots: index of the next candidate filename
  screenshots,       \* screenshots: the list built, or the list returned
  shot_requests,     \* screenshots: the filenames requested from the network
  spc,               \* screenshots: "start", "probe", "returned"
  on_entry,          \* screenshots: the local files and the index cache at the call
  shot_calls,        \* screenshots: the number of calls made
  given,             \* twin miss: the remote data and RunState of both sides
  entry,             \* twin miss: the app cache entry each side starts with
  built,             \* twin miss: the record each side assembled
  mpc,               \* twin miss: where each side is
  export_in,         \* exporter: the apps of apps_data.json
  ei,                \* exporter: index of the next app
  seen_ids,          \* exporter: seen_ids
  cosmos_apps,       \* exporter: the ids of the listings appended, in order
  epc,               \* exporter: "loop", "done"
  skipped,           \* exporter: skipped
  sources,           \* exporter: for each listing, the index of its app
  stats_file,        \* repo stats: cache/repo_stats_<owner>_<repo>.json
  stats_entry,       \* repo stats: the cache file as the call found it
  stats_answer,      \* repo stats: the answer to the request of the call
  stats_requests,    \* repo stats: the number of requests of the call
  stats_put,         \* repo stats: "none", "written" or "failed" cache write
  stats_out,         \* repo stats: the value returned
  stats_calls,       \* repo stats: the number of calls made
  tpc                \* repo stats: "start", "returned"

rvars == <<bundle, folder, compose_metadata, fields, rpc>>
cvars == <<now, compose_cache, cpc, ci, requests, compose>>
pvars == <<last_run_file, app_cache, pc, last_run_time, conf, created, app_data,
           apps, hit, failed, calls, run, cache_at_start, persisted>>
qvars == <<repo_i, repo_stats_cache, folders, folder_i, reads, saves, listed, raised>>
svars == <<shot_cache, local_files, si, screenshots, shot_requests, spc, on_entry,
           shot_calls>>
mvars == <<given, entry, built, mpc>>
evars == <<export_in, ei, seen_ids, cosmos_apps, epc, skipped, sources>>
tvars == <<stats_file, stats_entry, stats_answer, stats_requests, stats_put, stats_out,
           stats_calls, tpc>>
xvars == <<qvars, svars, mvars, evars, tvars>>
vars == <<rvars, cvars, pvars, xvars>>

\* the resolver is not in use
ResolveIdle ==
  /\ bundle = [compose |-> NoCompose, conf |-> NoFields]
  /\ folder = s_app
  /\ compose_metadata = NoMetadata
  /\ fields = NoFields
  /\ rpc = "idle"

\* the main script is not in use
MainIdle ==
  /\ last_run_file = NoLastRunFile
  /\ app_cache = NoAppFile
  /\ pc = "idle"
  /\ last_run_time = NoTime
  /\ conf = NoFields
  /\ created = NoDate
  /\ app_data = NoAppData
  /\ apps = <<>>
  /\ hit = FALSE
  /\ failed = FALSE
  /\ calls = {}
  /\ run = 0
  /\ cache_at_start = NoAppFile
  /\ persisted = [valid |-> FALSE, record |-> NoAppData]

\* the loop over the repositories is not in use
PipelineIdle ==
  /\ repo_i = 0
  /\ repo_stats_cache = <<>>
  /\ folders = <<>>
  /\ folder_i = 0
  /\ reads = 0
  /\ saves = 0
  /\ listed = {}
  /\ raised = {}

\* get_app_screenshots is not in use
ScreenshotsIdle ==
  /\ shot_cache = NoShotFile
  /\ local_files = {}
  /\ si = 0
  /\ screenshots = <<>>
  /\ shot_requests = <<>>
  /\ spc = "idle"
  /\ on_entry = NoEntry
  /\ shot_calls = 0

\* the twin runs are not in use
MissIdle ==
  /\ given = NoGiven
  /\ entry = <<NoAppFile, NoAppFile>>
  /\ built = <<NoAppData, NoAppData>>
  /\ mpc = <<"idle", "idle">>

\* the exporter is not in use
ExportIdle ==
  /\ export_in = <<>>
  /\ ei = 0
  /\ seen_ids = {}
  /\ cosmos_apps = <<>>
  /\ epc = "idle"
  /\ skipped = 0
  /\ sources = <<>>

\* get_repo_stats is not in use
StatsIdle ==
  /\ stats_file = NoStatsFile
  /\ stats_entry = NoStatsFile
  /\ stats_answer = NoAnswer
  /\ stats_requests = 0
  /\ stats_put = "none"
  /\ stats_out = DefaultStats
  /\ stats_calls = 0
  /\ tpc = "idle"

\* get_docker_compose is not in use
ComposeIdle ==
  /\ now = 0
  /\ compose_cache = NoFile
  /\ cpc = "idle"
  /\ ci = 1
  /\ requests = <<>>
  /\ compose = NoCompose

(***************************************************************************)
(* The resolver applied to one bundle, then the record assembly of the     *)
(* main loop (or its except handler when the resolver raised).             *)
(***************************************************************************)
InitResolve ==
  /\ bundle \in Bundles
  /\ folder \in Folders
  /\ compose_metadata = NoMetadata
  /\ fields = NoFields
  /\ rpc = "input"
  /\ ComposeIdle
  /\ MainIdle
  /\ PipelineIdle /\ ScreenshotsIdle /\ MissIdle /\ ExportIdle /\ StatsIdle

\* compose_metadata = extract_compose_metadata(compose, conf)
Resolve ==
  /\ rpc = "input"
  /\ compose_metadata' = ExtractComposeMetadata(bundle.compose, bundle.conf)
  /\ rpc' = "resolved"
  /\ UNCHANGED <<xvars, bundle, folder, fields, cvars, pvars>>

\* title = compose_metadata.get("title") or conf.get("title") or folder ...
Assemble ==
  /\ rpc = "resolved"
  /\ ~compose_metadata.raised
  /\ fields' = AssembleFields(compose_metadata.md, bundle.conf, folder)
  /\ rpc' = "assembled"
  /\ UNCHANGED <<xvars, bundle, folder, compose_metadata, cvars, pvars>>

\* except Exception: the placeholder record
Fail ==
  /\ rpc = "resolved"
  /\ compose_metadata.raised
  /\ fields' = PlaceholderFields(folder)
  /\ rpc' = "failed"
  /\ UNCHANGED <<xvars, bundle, folder, compose_metadata, cvars, pvars>>

NextResolve == Resolve \/ Assemble \/ Fail

SpecResolve == InitResolve /\ [][NextResolve]_vars

(***************************************************************************)
(* The resolver applied to bundles that vary the keys of the first         *)
(* service: ports, image, version label, volumes, deploy.                  *)
(***************************************************************************)
InitService ==
  /\ bundle \in ServiceBundles
  /\ folder = s_app
  /\ compose_metadata = NoMetadata
  /\ fields = NoFields
  /\ rpc = "input"
  /\ ComposeIdle
  /\ MainIdle
  /\ PipelineIdle /\ ScreenshotsIdle /\ MissIdle /\ ExportIdle /\ StatsIdle

SpecService == InitService /\ [][NextResolve]_vars

(***************************************************************************)
(* get_docker_compose, one request at a time                               *)
(***************************************************************************)
CacheAges == {0, ComposeTTL - 1, ComposeTTL, ComposeTTL + 1}

InitCompose ==
  /\ ResolveIdle
  /\ MainIdle
  /\ PipelineIdle /\ ScreenshotsIdle /\ MissIdle /\ ExportIdle /\ StatsIdle
  /\ now = ComposeTTL + 1
  /\ compose_cache \in {NoFile}
       \cup { File(now - a, t) :
                a \in CacheAges,
                t \in {YamlText(CandidateDoc(1)), NullText, InvalidText} }
  /\ cpc = "start"
  /\ ci = 1
  /\ requests = <<>>
  /\ compose = NoCompose

\* the cached file is recent and parses: return yaml.safe_load(f)
ComposeCacheHit ==
  /\ cpc = "start"
  /\ ComposeCacheUsable(compose_cache, now)
  /\ compose' = SafeLoad(compose_cache.text)
  /\ cpc' = "done"
  /\ UNCHANGED <<xvars, rvars, pvars, now, compose_cache, ci, requests>>

\* no cached file, an old one or an unreadable one: go on to fetch
ComposeCacheMiss ==
  /\ cpc = "start"
  /\ ~ComposeCacheUsable(compose_cache, now)
  /\ cpc' = "fetch"
  /\ UNCHANGED <<xvars, rvars, pvars, now, compose_cache, ci, requests, compose>>

\* requests.get(url) for candidate ci, answered with an accepted 200:
\* cache the document and return it
ComposeRequestAccepted ==
  /\ cpc = "fetch"
  /\ ci <= Len(compose_files)
  /\ \E resp \in Responses(ci) :
       /\ Accepts(resp)
       /\ requests' = Append(requests, [file |-> compose_files[ci], resp |-> resp])
       /\ compose' = Accepted(resp)
       /\ compose_cache' \in Written(compose_cache, now, YamlDump(Accepted(resp)))
  /\ cpc' = "done"
  /\ UNCHANGED <<xvars, rvars, pvars, now, ci>>

\* requests.get(url) for candidate ci, answered otherwise: next candidate
ComposeRequestSkipped ==
  /\ cpc = "fetch"
  /\ ci <= Len(compose_files)
  /\ \E resp \in Responses(ci) :
       /\ ~Accepts(resp)
       /\ requests' = Append(requests, [file |-> compose_files[ci], resp |-> resp])
  /\ ci' = ci + 1
  /\ UNCHANGED <<xvars, rvars, pvars, now, compose_cache, cpc, compose>>

\* every candidate was tried: return {}
ComposeNotFound ==
  /\ cpc = "fetch"
  /\ ci > Len(compose_files)
  /\ compose' = NoCompose
  /\ cpc' = "done"
  /\ UNCHANGED <<xvars, rvars, pvars, now, compose_cache, ci, requests>>

NextCompose ==
  \/ ComposeCacheHit
  \/ ComposeCacheMiss
  \/ ComposeRequestAccepted
  \/ ComposeRequestSkipped
  \/ ComposeNotFound

SpecCompose == InitCompose /\ [][NextCompose]_vars

(***************************************************************************)
(* The main script over one app folder of one repository, run after run:   *)
(* load the run state, reuse or rebuild the folder's record, save the run  *)
(* state.  The clock stands still during a run and advances between runs.  *)
(***************************************************************************)
MaxRuns == 2

\* the time between two runs: just under a day, or a day
Gaps == {AppTTL - 1, AppTTL}

Init ==
  /\ bundle = [compose |-> NoCompose, conf |-> NoFields]
  /\ folder = s_app
  /\ compose_metadata = NoMetadata
  /\ fields = NoFields
  /\ rpc = "idle"
  /\ now = AppTTL
  /\ compose_cache = NoFile
  /\ cpc = "idle"
  /\ ci = 1
  /\ requests = <<>>
  /\ compose = NoCompose
  /\ last_run_file \in {NoLastRunFile, File(0, InvalidJson(NoDate))}
  /\ app_cache \in {NoAppFile,
                    File(now, InvalidJson(NoAppData)),
                    File(0, InvalidJson(NoAppData))}
  /\ pc = "load_last_run"
  /\ last_run_time = NoTime
  /\ conf = NoFields
  /\ created = NoDate
  /\ app_data = NoAppData
  /\ apps = <<>>
  /\ hit = FALSE
  /\ failed = FALSE
  /\ calls = {}
  /\ run = 1
  /\ cache_at_start = app_cache
  /\ persisted = [valid |-> FALSE, record |-> NoAppData]
  /\ PipelineIdle /\ ScreenshotsIdle /\ MissIdle /\ ExportIdle /\ StatsIdle

\* last_run_time = None; if os.path.exists(last_run_file): try: ... except: pass
LoadRunState ==
  /\ pc = "load_last_run"
  /\ last_run_time' = LoadLastRun(last_run_file)
  /\ pc' = "check_cache"
  /\ UNCHANGED <<xvars, rvars, cvars, last_run_file, app_cache, conf, created, app_data,
                 apps, hit, failed, calls, run, cache_at_start, persisted>>

\* the cache file is recent and parses: app_data = json.load(f)
UseCachedApp ==
  /\ pc = "check_cache"
  /\ AppCacheUsable(app_cache, now)
  /\ app_data' = LoadAppCache(app_cache)
  /\ hit' = TRUE
  /\ pc' = "append"
  /\ UNCHANGED <<xvars, rvars, cvars, last_run_file, app_cache, last_run_time, conf,
                 created, apps, failed, calls, run, cache_at_start, persisted>>

\* no cache file, an old one or an unreadable one: app_data stays {}
MissCachedApp ==
  /\ pc = "check_cache"
  /\ ~AppCacheUsable(app_cache, now)
  /\ pc' = "conf"
  /\ UNCHANGED <<xvars, rvars, cvars, last_run_file, app_cache, last_run_time, conf,
                 created, app_data, apps, hit, failed, calls, run, cache_at_start,
                 persisted>>

\* conf = get_conf_json_raw(owner, repo, folder, branch)
GetConf ==
  /\ pc = "conf"
  /\ conf' \in ConfFiles
  /\ calls' = calls \cup {"get_conf_json_raw"}
  /\ pc' = "compose"
  /\ UNCHANGED <<xvars, rvars, cvars, last_run_file, app_cache, last_run_time, created,
                 app_data, apps, hit, failed, run, cache_at_start, persisted>>

\* compose = get_docker_compose(owner, repo, folder, branch)
GetCompose ==
  /\ pc = "compose"
  /\ IF ComposeCacheUsable(compose_cache, now)
     THEN /\ compose' = SafeLoad(compose_cache.text)
          /\ UNCHANGED compose_cache
     ELSE \E resps \in ComposeAnswers :
            /\ compose' = FetchCompose(1, resps)
            /\ IF \E i \in 1..Len(compose_files) : Accepts(resps[i])
               THEN compose_cache' \in
                      Written(compose_cache, now, YamlDump(FetchCompose(1, resps)))
               ELSE UNCHANGED compose_cache
  /\ calls' = calls \cup {"get_docker_compose"}
  /\ pc' = "screenshots"
  /\ UNCHANGED <<xvars, rvars, now, cpc, ci, requests, last_run_file, app_cache,
                 last_run_time, conf, created, app_data, apps, hit, failed, run,
                 cache_at_start, persisted>>

\* screenshots = get_app_screenshots(owner, repo, folder, branch)
GetScreenshots ==
  /\ pc = "screenshots"
  /\ calls' = calls \cup {"get_app_screenshots"}
  /\ pc' = "extract"
  /\ UNCHANGED <<xvars, rvars, cvars, last_run_file, app_cache, last_run_time, conf,
                 created, app_data, apps, hit, failed, run, cache_at_start,
                 persisted>>

\* compose_metadata = extract_compose_metadata(compose, conf); an exception
\* leaves the try block for the except handler
ExtractMetadata ==
  /\ pc = "extract"
  /\ compose_metadata' = ExtractComposeMetadata(compose, conf)
  /\ pc' = IF compose_metadata'.raised THEN "except" ELSE "created"
  /\ UNCHANGED <<xvars, bundle, folder, fields, rpc, cvars, last_run_file, app_cache,
                 last_run_time, conf, created, app_data, apps, hit, failed, calls,
                 run, cache_at_start, persisted>>

\* the creation dates the commit history can give: none (the request failed
\* or there are no commits), the time of the previous run, just now
CreationDates == {NoDate, IsoZ(now)}
                 \cup (IF last_run_time.set THEN {IsoZ(last_run_time.t)} ELSE {})

\* created = get_creation_date(owner, repo, folder)
GetCreationDate ==
  /\ pc = "created"
  /\ created' \in CreationDates
  /\ calls' = calls \cup {"get_creation_date"}
  /\ pc' = "assemble"
  /\ UNCHANGED <<xvars, rvars, cvars, last_run_file, app_cache, last_run_time, conf,
                 app_data, apps, hit, failed, run, cache_at_start, persisted>>

\* is_new, then app_data = {"title": title, ...}
AssembleAppData ==
  /\ pc = "assemble"
  /\ app_data' = AssembledRecord(compose_metadata, compose, conf, folder, REPOS[1],
                                 created, DefaultStats, last_run_time,
                                 app_cache.exists, now)
  /\ pc' = "write"
  /\ UNCHANGED <<xvars, rvars, cvars, last_run_file, app_cache, last_run_time, conf,
                 created, apps, hit, failed, calls, run, cache_at_start, persisted>>

\* with open(cache_file, 'w') as f: json.dump(app_data, f); a failure is
\* printed and swallowed
WriteAppCache ==
  /\ pc = "write"
  /\ app_cache' \in WrittenJson(app_cache, now, JsonDump(app_data))
  /\ persisted' =
       IF app_cache' = File(now, JsonDump(app_data))
       THEN [valid |-> TRUE, record |-> app_data]
       ELSE IF app_cache' = app_cache THEN persisted
       ELSE [valid |-> FALSE, record |-> NoAppData]
  /\ pc' = "append"
  /\ UNCHANGED <<xvars, rvars, cvars, last_run_file, last_run_time, conf, created,
                 app_data, apps, hit, failed, calls, run, cache_at_start>>

\* except Exception as e: the minimal record of the failed folder
HandleError ==
  /\ pc = "except"
  /\ app_data' = PlaceholderAppData(folder, REPOS[1], DefaultStats, now)
  /\ app_cache' = ExceptCacheFile(app_cache, now, app_data')
  /\ failed' = TRUE
  /\ pc' = "append"
  /\ UNCHANGED <<xvars, rvars, cvars, last_run_file, last_run_time, conf,
                 created, apps, hit, calls, run, cache_at_start, persisted>>

\* apps.append(app_data): the end of the loop body, whose variables are not
\* read again
AppendApp ==
  /\ pc = "append"
  /\ apps' = Append(apps, app_data)
  /\ pc' = "save_last_run"
  /\ conf' = NoFields
  /\ created' = NoDate
  /\ app_data' = NoAppData
  /\ compose' = NoCompose
  /\ compose_metadata' = NoMetadata
  /\ hit' = FALSE
  /\ failed' = FALSE
  /\ calls' = {}
  /\ UNCHANGED <<xvars, bundle, folder, fields, rpc, now, compose_cache, cpc, ci, requests,
                 last_run_file, app_cache, last_run_time, run, cache_at_start,
                 persisted>>

\* json.dump({"last_run": datetime.now().isoformat()}, f); a failure is
\* printed and swallowed.  The sort that follows leaves the one record in place.
SaveRunState ==
  /\ pc = "save_last_run"
  /\ last_run_file' \in WrittenJson(last_run_file, now, LastRunDump(now))
  /\ pc' = "done"
  /\ UNCHANGED <<xvars, rvars, cvars, app_cache, last_run_time, conf, created, app_data,
                 apps, hit, failed, calls, run, cache_at_start, persisted>>

\* the script is started again, some time later
NextRun ==
  /\ pc = "done"
  /\ run < MaxRuns
  /\ \E gap \in Gaps : now' = now + gap
  /\ run' = run + 1
  /\ pc' = "load_last_run"
  /\ last_run_time' = NoTime
  /\ apps' = <<>>
  /\ cache_at_start' = app_cache
  /\ UNCHANGED <<xvars, rvars, compose_cache, cpc, ci, requests, compose, last_run_file,
                 app_cache, conf, created, app_data, hit, failed, calls, persisted>>

Next ==
  \/ LoadRunState
  \/ UseCachedApp
  \/ MissCachedApp
  \/ GetConf
  \/ GetCompose
  \/ GetScreenshots
  \/ ExtractMetadata
  \/ GetCreationDate
  \/ AssembleAppData
  \/ WriteAppCache
  \/ HandleError
  \/ AppendApp
  \/ SaveRunState
  \/ NextRun

Spec == Init /\ [][Next]_vars

(***************************************************************************)
(* The aggregation pipeline: one run of the main script over the           *)
(* repositories and their folders.  The body of the folder loop is one     *)
(* step; the cache file it writes for the folder is not read again in the  *)
(* run.                                                                    *)
(***************************************************************************)
InitPipeline ==
  /\ ResolveIdle
  /\ now = AppTTL + 20
  /\ compose_cache = NoFile
  /\ cpc = "idle"
  /\ ci = 1
  /\ requests = <<>>
  /\ compose = NoCompose
  /\ last_run_file \in {NoLastRunFile,
                        File(10, LastRunDump(10)),
                        File(10, InvalidJson(NoDate))}
  /\ app_cache = NoAppFile
  /\ pc = "load_last_run"
  /\ last_run_time = NoTime
  /\ conf = NoFields
  /\ created = NoDate
  /\ app_data = NoAppData
  /\ apps = <<>>
  /\ hit = FALSE
  /\ failed = FALSE
  /\ calls = {}
  /\ run = 1
  /\ cache_at_start = NoAppFile
  /\ persisted = [valid |-> FALSE, record |-> NoAppData]
  /\ repo_i = 1
  /\ repo_stats_cache = <<>>
  /\ folders = <<>>
  /\ folder_i = 1
  /\ reads = 0
  /\ saves = 0
  /\ listed = {}
  /\ raised = {}
  /\ ScreenshotsIdle /\ MissIdle /\ ExportIdle /\ StatsIdle

\* the variables the pipeline leaves alone
PipelineRest ==
  <<rvars, cvars, app_cache, conf, created, app_data, hit, failed, calls, run,
    cache_at_start, persisted, svars, mvars, evars, tvars>>

\* last_run_time = None; if os.path.exists(last_run_file): try: ... except: pass
ReadRunState ==
  /\ pc = "load_last_run"
  /\ last_run_time' = LoadLastRun(last_run_file)
  /\ reads' = reads + 1
  /\ pc' = "stats"
  /\ UNCHANGED <<PipelineRest, last_run_file, apps, repo_i, repo_stats_cache,
                 folders, folder_i, saves, listed, raised>>

\* repo_stats_cache[repo_key] = get_repo_stats(owner, repo)
FetchRepoStats ==
  /\ pc = "stats"
  /\ \E file \in StatsFiles(now), response \in StatsAnswers :
       repo_stats_cache' = Append(repo_stats_cache, GetRepoStats(file, now, response))
  /\ pc' = "list"
  /\ UNCHANGED <<PipelineRest, last_run_file, last_run_time, apps, repo_i, folders,
                 folder_i, reads, saves, listed, raised>>

\* folders = list_app_folders(owner, repo)
ListFolders ==
  /\ pc = "list"
  /\ folders' \in Listings(MaxApps - Cardinality(listed))
  /\ folder_i' = 1
  /\ listed' = listed \cup { <<repo_i, folders'[i]>> : i \in 1..Len(folders') }
  /\ pc' = "folder"
  /\ UNCHANGED <<PipelineRest, last_run_file, last_run_time, apps, repo_i,
                 repo_stats_cache, reads, saves, raised>>

\* the loop body on a cache hit: app_data = json.load(f); apps.append(app_data)
ReuseFolder ==
  /\ pc = "folder"
  /\ folder_i <= Len(folders)
  /\ \E file \in AppFiles(folders[folder_i], REPOS[repo_i], now) :
       /\ AppCacheUsable(file, now)
       /\ apps' = Append(apps, LoadAppCache(file))
  /\ folder_i' = folder_i + 1
  /\ UNCHANGED <<PipelineRest, last_run_file, last_run_time, pc, repo_i,
                 repo_stats_cache, folders, reads, saves, listed, raised>>

\* the try block of the loop body raises: in extract_compose_metadata, or at
\* repo_stats["stars"]
ChainRaises(compose_data, repo_stats) ==
  \/ ExtractComposeMetadata(compose_data, NoFields).raised
  \/ StarsRaises(repo_stats)

\* the loop body on a cache miss when the chain does not raise
AssembleFolder ==
  /\ pc = "folder"
  /\ folder_i <= Len(folders)
  /\ \E file \in AppFiles(folders[folder_i], REPOS[repo_i], now),
        compose_data \in PipelineComposes,
        created_at \in PipelineDates :
       /\ ~AppCacheUsable(file, now)
       /\ ~ChainRaises(compose_data, repo_stats_cache[repo_i])
       /\ apps' = Append(apps,
                         AssembledRecord(ExtractComposeMetadata(compose_data, NoFields),
                                         compose_data, NoFields, folders[folder_i],
                                         REPOS[repo_i], created_at,
                                         repo_stats_cache[repo_i], last_run_time,
                                         file.exists, now))
  /\ folder_i' = folder_i + 1
  /\ UNCHANGED <<PipelineRest, last_run_file, last_run_time, pc, repo_i,
                 repo_stats_cache, folders, reads, saves, listed, raised>>

\* the loop body on a cache miss when the chain raises: the except handler
\* builds the placeholder record
PlaceholderFolder ==
  /\ pc = "folder"
  /\ folder_i <= Len(folders)
  /\ \E file \in AppFiles(folders[folder_i], REPOS[repo_i], now),
        compose_data \in PipelineComposes :
       /\ ~AppCacheUsable(file, now)
       /\ ChainRaises(compose_data, repo_stats_cache[repo_i])
  /\ ~StarsRaises(repo_stats_cache[repo_i])
  /\ apps' = Append(apps, PlaceholderAppData(folders[folder_i], REPOS[repo_i],
                                             repo_stats_cache[repo_i], now))
  /\ raised' = raised \cup {<<repo_i, folders[folder_i]>>}
  /\ folder_i' = folder_i + 1
  /\ UNCHANGED <<PipelineRest, last_run_file, last_run_time, pc, repo_i,
                 repo_stats_cache, folders, reads, saves, listed>>

\* the loop body on a cache miss when the chain raises and the except handler
\* raises too, at its own repo_stats["stars"]: the exception leaves the script
HandlerRaises ==
  /\ pc = "folder"
  /\ folder_i <= Len(folders)
  /\ \E file \in AppFiles(folders[folder_i], REPOS[repo_i], now) :
       ~AppCacheUsable(file, now)
  /\ StarsRaises(repo_stats_cache[repo_i])
  /\ raised' = raised \cup {<<repo_i, folders[folder_i]>>}
  /\ pc' = "crashed"
  /\ UNCHANGED <<PipelineRest, last_run_file, last_run_time, apps, repo_i,
                 repo_stats_cache, folders, folder_i, reads, saves, listed>>

\* the folders of the repository are done: the next repository, or the end
\* of the loop
NextRepo ==
  /\ pc = "folder"
  /\ folder_i > Len(folders)
  /\ IF repo_i < Len(REPOS)
     THEN repo_i' = repo_i + 1 /\ pc' = "stats"
     ELSE repo_i' = repo_i /\ pc' = "save_last_run"
  /\ UNCHANGED <<PipelineRest, last_run_file, last_run_time, apps,
                 repo_stats_cache, folders, folder_i, reads, saves, listed, raised>>

\* json.dump({"last_run": datetime.now().isoformat()}, f); a failure is
\* printed and swallowed
WriteRunState ==
  /\ pc = "save_last_run"
  /\ last_run_file' \in WrittenJson(last_run_file, now, LastRunDump(now))
  /\ saves' = saves + 1
  /\ pc' = "sort"
  /\ UNCHANGED <<PipelineRest, last_run_time, apps, repo_i, repo_stats_cache,
                 folders, folder_i, reads, listed, raised>>

\* apps.sort(key=lambda x: x["created"] or "", reverse=True)
SortApps ==
  /\ pc = "sort"
  /\ IF \E i \in 1..Len(apps) : KeyRaises(apps[i])
     THEN pc' = "crashed" /\ UNCHANGED apps
     ELSE pc' = "done" /\ apps' = Sorted(apps)
  /\ UNCHANGED <<PipelineRest, last_run_file, last_run_time, repo_i,
                 repo_stats_cache, folders, folder_i, reads, saves, listed, raised>>

NextPipeline ==
  \/ ReadRunState
  \/ FetchRepoStats
  \/ ListFolders
  \/ ReuseFolder
  \/ AssembleFolder
  \/ PlaceholderFolder
  \/ HandlerRaises
  \/ NextRepo
  \/ WriteRunState
  \/ SortApps

SpecPipeline == InitPipeline /\ [][NextPipeline]_vars

(***************************************************************************)
(* The loop body on a cache miss, run twice side by side on the same       *)
(* remote data and RunState, from two app cache entries that both miss.    *)
(***************************************************************************)
Sides == {1, 2}

\* the app cache entries that are not reused: missing, a day old, not JSON
MissEntries(clock) ==
  {NoAppFile,
   File(clock - AppTTL, JsonText(CachedRecord(s_app, REPOS[1], clock))),
   File(clock - 1, InvalidJson(NoAppData))}

\* the remote data of the folder and the RunState
Givens ==
  [compose : {NoCompose, CandidateDoc(1), CandidateDoc(3)},
   conf : ConfFiles,
   created : {NoDate, IsoZ(5), IsoZ(14)},
   last_run : {NoTime, FromIsoformat(NowIso(10))}]

InitMiss ==
  /\ ResolveIdle
  /\ MainIdle
  /\ PipelineIdle /\ ScreenshotsIdle /\ ExportIdle /\ StatsIdle
  /\ now = AppTTL + 20
  /\ compose_cache = NoFile
  /\ cpc = "idle"
  /\ ci = 1
  /\ requests = <<>>
  /\ compose = NoCompose
  /\ given \in Givens
  /\ entry \in [Sides -> MissEntries(now)]
  /\ built = <<NoAppData, NoAppData>>
  /\ mpc = <<"check", "check">>

\* if os.path.exists(cache_file): ... if not app_data: the entry is not reused
MissCheck(side) ==
  /\ mpc[side] = "check"
  /\ ~AppCacheUsable(entry[side], now)
  /\ mpc' = [mpc EXCEPT ![side] = "chain"]
  /\ UNCHANGED <<rvars, cvars, pvars, qvars, svars, evars, tvars, given, entry, built>>

\* the try block: the record is assembled from the remote data
MissAssemble(side) ==
  /\ mpc[side] = "chain"
  /\ ~ExtractComposeMetadata(given.compose, given.conf).raised
  /\ built' = [built EXCEPT ![side] =
                 AssembledRecord(ExtractComposeMetadata(given.compose, given.conf),
                                 given.compose, given.conf, s_app, REPOS[1],
                                 given.created, DefaultStats, given.last_run,
                                 entry[side].exists, now)]
  /\ mpc' = [mpc EXCEPT ![side] = "done"]
  /\ UNCHANGED <<rvars, cvars, pvars, qvars, svars, evars, tvars, given, entry>>

\* the except handler: the placeholder record
MissPlaceholder(side) ==
  /\ mpc[side] = "chain"
  /\ ExtractComposeMetadata(given.compose, given.conf).raised
  /\ built' = [built EXCEPT ![side] =
                 PlaceholderAppData(s_app, REPOS[1], DefaultStats, now)]
  /\ mpc' = [mpc EXCEPT ![side] = "done"]
  /\ UNCHANGED <<rvars, cvars, pvars, qvars, svars, evars, tvars, given, entry>>

NextMiss ==
  \/ \E side \in Sides : MissCheck(side)
  \/ \E side \in Sides : MissAssemble(side)
  \/ \E side \in Sides : MissPlaceholder(side)

SpecMiss == InitMiss /\ [][NextMiss]_vars

(***************************************************************************)
(* The exporter's main(): the loop over the apps of apps_data.json.        *)
(* cosmos_apps keeps the id of each listing appended.                      *)
(***************************************************************************)
InitExport ==
  /\ ResolveIdle
  /\ ComposeIdle
  /\ MainIdle
  /\ PipelineIdle /\ ScreenshotsIdle /\ MissIdle /\ StatsIdle
  /\ skipped = 0
  /\ sources = <<>>
  /\ export_in \in ExportInputs
  /\ ei = 1
  /\ seen_ids = {}
  /\ cosmos_apps = <<>>
  /\ epc = "loop"

\* if not app.get('compose_available', False): continue;
\* if not cosmos_app['compose']: continue
ExportSkip ==
  /\ epc = "loop"
  /\ ei <= Len(export_in)
  /\ ~export_in[ei].compose_available \/ ~HasComposeUrl(export_in[ei])
  /\ skipped' = skipped + 1
  /\ ei' = ei + 1
  /\ UNCHANGED <<rvars, cvars, pvars, qvars, svars, mvars, tvars, export_in, seen_ids,
                 cosmos_apps, epc, sources>>

\* the id is made unique, added to seen_ids, and the listing is appended
ExportListing ==
  /\ epc = "loop"
  /\ ei <= Len(export_in)
  /\ export_in[ei].compose_available /\ HasComposeUrl(export_in[ei])
  /\ LET id == ListingId(export_in[ei], seen_ids)
     IN /\ seen_ids' = seen_ids \cup {id}
        /\ cosmos_apps' = Append(cosmos_apps, id)
  /\ sources' = Append(sources, ei)
  /\ ei' = ei + 1
  /\ UNCHANGED <<rvars, cvars, pvars, qvars, svars, mvars, tvars, export_in, epc, skipped>>

\* json.dump(cosmos_apps, f)
ExportSave ==
  /\ epc = "loop"
  /\ ei > Len(export_in)
  /\ epc' = "done"
  /\ UNCHANGED <<rvars, cvars, pvars, qvars, svars, mvars, tvars, export_in, ei, seen_ids,
                 cosmos_apps, skipped, sources>>

NextExport == ExportSkip \/ ExportListing \/ ExportSave

SpecExport == InitExport /\ [][NextExport]_vars

(***************************************************************************)
(* get_repo_stats, called for one repository up to MaxStatsCalls times,    *)
(* with time passing between the calls.                                    *)
(***************************************************************************)
InitStats ==
  /\ ResolveIdle
  /\ MainIdle
  /\ PipelineIdle /\ ScreenshotsIdle /\ MissIdle /\ ExportIdle
  /\ now = StatsTTL
  /\ compose_cache = NoFile
  /\ cpc = "idle"
  /\ ci = 1
  /\ requests = <<>>
  /\ compose = NoCompose
  /\ stats_file = NoStatsFile
  /\ stats_entry = NoStatsFile
  /\ stats_answer = NoAnswer
  /\ stats_requests = 0
  /\ stats_put = "none"
  /\ stats_out = DefaultStats
  /\ stats_calls = 1
  /\ tpc = "start"

\* the variables get_repo_stats leaves alone
StatsRest ==
  <<rvars, compose_cache, cpc, ci, requests, compose, pvars, qvars, svars, mvars, evars>>

\* get_repo_stats(owner, repo): the cached value, or one request whose 200
\* answer is written to the cache (a failed write is printed and swallowed)
CallGetRepoStats ==
  /\ tpc = "start"
  /\ stats_entry' = stats_file
  /\ IF StatsCacheUsable(stats_file, now)
     THEN /\ stats_answer' = NoAnswer
          /\ stats_requests' = 0
          /\ stats_put' = "none"
          /\ stats_out' = GetRepoStats(stats_file, now, NoAnswer)
          /\ UNCHANGED stats_file
     ELSE \E response \in StatsAnswers :
            /\ stats_answer' = response
            /\ stats_requests' = 1
            /\ IF response.status = 200
               THEN /\ stats_file' \in WrittenJson(stats_file, now, JsonText(response.stats))
                    /\ stats_put' = IF stats_file' = File(now, JsonText(response.stats))
                                    THEN "written" ELSE "failed"
               ELSE /\ UNCHANGED stats_file
                    /\ stats_put' = "none"
            /\ stats_out' = StatsResult(GetRepoStats(stats_file, now, response), stats_put')
  /\ tpc' = "returned"
  /\ UNCHANGED <<StatsRest, now, stats_calls>>

\* the repository is reached again, in a later run
StatsLater ==
  /\ tpc = "returned"
  /\ stats_calls < MaxStatsCalls
  /\ \E gap \in StatsGaps : now' = now + gap
  /\ stats_calls' = stats_calls + 1
  /\ tpc' = "start"
  /\ UNCHANGED <<StatsRest, stats_file, stats_entry, stats_answer, stats_requests,
                 stats_put, stats_out>>

NextStats == CallGetRepoStats \/ StatsLater

SpecStats == InitStats /\ [][NextStats]_vars

(***************************************************************************)
(* get_app_screenshots, called for one app up to MaxShotCalls times, with  *)
(* time passing between the calls.                                         *)
(***************************************************************************)
InitScreenshots ==
  /\ ResolveIdle
  /\ MainIdle
  /\ PipelineIdle /\ MissIdle /\ ExportIdle /\ StatsIdle
  /\ now = ShotTTL
  /\ compose_cache = NoFile
  /\ cpc = "idle"
  /\ ci = 1
  /\ requests = <<>>
  /\ compose = NoCompose
  /\ shot_cache = NoShotFile
  /\ local_files = {}
  /\ si = 1
  /\ screenshots = <<>>
  /\ shot_requests = <<>>
  /\ spc = "start"
  /\ on_entry = NoEntry
  /\ shot_calls = 1

\* the variables get_app_screenshots leaves alone
ScreenshotsRest ==
  <<rvars, compose_cache, cpc, ci, requests, compose, pvars, qvars, mvars, evars, tvars>>

\* the index cache is returned if it exists, is younger than 24 hours and
\* loads; otherwise discovery starts with screenshots = []
EnterScreenshots ==
  /\ spc = "start"
  /\ on_entry' = [files |-> local_files, index |-> IndexKind(shot_cache, now)]
  /\ shot_requests' = <<>>
  /\ si' = 1
  /\ IF IndexKind(shot_cache, now) = "fresh"
     THEN /\ screenshots' = JsonLoad(shot_cache.text).screenshots
          /\ spc' = "returned"
     ELSE /\ screenshots' = <<>>
          /\ spc' = "probe"
  /\ UNCHANGED <<ScreenshotsRest, now, shot_cache, local_files, shot_calls>>

\* if os.path.exists(local_path): screenshots.append(...); continue
ProbeLocal ==
  /\ spc = "probe"
  /\ si <= Len(ShotCandidates)
  /\ AlreadyDownloaded(ShotCandidates[si], local_files)
  /\ screenshots' = Append(screenshots, ShotCandidates[si])
  /\ si' = si + 1
  /\ UNCHANGED <<ScreenshotsRest, now, shot_cache, local_files, shot_requests, spc,
                 on_entry, shot_calls>>

\* response = requests.get(url, timeout=10), and what follows from it
ProbeRemote ==
  /\ spc = "probe"
  /\ si <= Len(ShotCandidates)
  /\ ~AlreadyDownloaded(ShotCandidates[si], local_files)
  /\ shot_requests' = Append(shot_requests, ShotCandidates[si])
  /\ \E outcome \in ProbeOutcomes :
       /\ local_files' = IF outcome = "none" THEN local_files
                         ELSE local_files \cup {ShotCandidates[si]}
       /\ screenshots' = IF outcome = "image"
                         THEN Append(screenshots, ShotCandidates[si])
                         ELSE screenshots
  /\ si' = si + 1
  /\ UNCHANGED <<ScreenshotsRest, now, shot_cache, spc, on_entry, shot_calls>>

\* json.dump(screenshot_data, f) in its try block; return screenshot_data
WriteIndex ==
  /\ spc = "probe"
  /\ si > Len(ShotCandidates)
  /\ \E outcome \in IndexOutcomes :
       shot_cache' =
         CASE outcome = "written" -> File(now, JsonText(ScreenshotData(screenshots, now)))
           [] outcome = "truncated" -> File(now, InvalidJson(ScreenshotData(<<>>, 0)))
           [] OTHER -> shot_cache
  /\ spc' = "returned"
  /\ UNCHANGED <<ScreenshotsRest, now, local_files, si, screenshots, shot_requests,
                 on_entry, shot_calls>>

\* the app is reached again, in the same run or a later one
CallAgain ==
  /\ spc = "returned"
  /\ shot_calls < MaxShotCalls
  /\ \E passed \in {1, ShotTTL} : now' = now + passed
  /\ shot_calls' = shot_calls + 1
  /\ spc' = "start"
  /\ UNCHANGED <<ScreenshotsRest, shot_cache, local_files, si, screenshots,
                 shot_requests, on_entry>>

NextScreenshots ==
  EnterScreenshots \/ ProbeLocal \/ ProbeRemote \/ WriteIndex \/ CallAgain

SpecScreenshots == InitScreenshots /\ [][NextScreenshots]_vars

(***************************************************************************)
(* The four caching functions side by side: the main script with its app   *)
(* cache, compose cache and run tracker, get_docker_compose request by     *)
(* request, get_repo_stats and get_app_screenshots.  Each behaviour is a   *)
(* behaviour of one of them.                                               *)
(***************************************************************************)
InitCaches == Init \/ InitCompose \/ InitStats \/ InitScreenshots

NextCaches == Next \/ NextCompose \/ NextStats \/ NextScreenshots

SpecCaches == InitCaches /\ [][NextCaches]_vars

(***************************************************************************)
(* Claims about the resolver, checked under SpecResolve                    *)
(***************************************************************************)
HasKey(m, key) == \E i \in 1..Len(m) : m[i].k = key
ValueOf(m, key) == m[CHOOSE i \in 1..Len(m) : m[i].k = key].v

\* the resolver ran past locale selection and returned
Selected == rpc # "input" /\ ~compose_metadata.raised /\ bundle.compose.kind = "doc"

\* what the block gives for a field once locale selection has been applied
BlockValue(f) ==
  IF f = "title" THEN Localized(Get(bundle.compose.x.title))
  ELSE IF f = "description" THEN DescriptionOf(bundle.compose.x)
  ELSE Get(bundle.compose.x[f])

\* the candidates of a field in priority order: block, label, conf file
Candidates(f) ==
  <<BlockValue(f), Get(bundle.compose.labels[f]), Get(bundle.conf[f])>>

AnyCandidate(f) == \E i \in 1..3 : Truthy(Candidates(f)[i])

FirstCandidate(f) ==
  Candidates(f)[CHOOSE i \in 1..3 :
                  /\ Truthy(Candidates(f)[i])
                  /\ \A j \in 1..(i - 1) : ~Truthy(Candidates(f)[j])]

\* C1: every resolved field (title, icon, description, category, author) of an
\* assembled record equals the first non-empty value in the order
\* vendor-extension block, service label, conf file.
C1_PriorityOrder ==
  rpc = "assembled" =>
    \A f \in FieldNames : AnyCandidate(f) => fields[f] = FirstCandidate(f)

\* the value C2 as written expects for a locale mapping: the mapping's first
\* value when none of the three keys is present
ClaimedLocale(m) ==
  IF HasKey(m, "en_US") THEN Str(ValueOf(m, "en_US"))
  ELSE IF HasKey(m, "en_us") THEN Str(ValueOf(m, "en_us"))
  ELSE IF HasKey(m, "en") THEN Str(ValueOf(m, "en"))
  ELSE Str(m[1].v)

\* the value the amended C2 expects: the empty string in that case
AmendedLocale(m) ==
  IF HasKey(m, "en_US") THEN Str(ValueOf(m, "en_US"))
  ELSE IF HasKey(m, "en_us") THEN Str(ValueOf(m, "en_us"))
  ELSE IF HasKey(m, "en") THEN Str(ValueOf(m, "en"))
  ELSE Str(<<>>)

\* C2 as written: locale selection of a title or description mapping returns
\* en_US, else en_us, else en, else the mapping's first value in insertion order.
C2_LocaleFirstValueFallback ==
  Selected =>
    \A f \in {"title", "description"} :
      LET v == bundle.compose.x[f]
      IN (v.kind = "map" /\ v.m # <<>>) =>
           compose_metadata.locals[f] = ClaimedLocale(v.m)

\* C2 amended: locale selection of a title or description mapping returns the
\* value under en_US, else under en_us, else under en, else the empty string.
C2_LocaleSelection ==
  Selected =>
    \A f \in {"title", "description"} :
      LET v == bundle.compose.x[f]
      IN v.kind = "map" => compose_metadata.locals[f] = AmendedLocale(v.m)

\* a title mapping with two locales, neither of them English, has been resolved
C2_Witness ==
  /\ Selected
  /\ bundle.compose.x.title.kind = "map"
  /\ Len(bundle.compose.x.title.m) = 2
  /\ \A i \in 1..2 : bundle.compose.x.title.m[i].k \notin {"en_US", "en_us", "en"}
  /\ compose_metadata.locals.title = Str(<<>>)

\* some source gives the title or the description as a locale mapping
SuppliesMapping ==
  \E f \in {"title", "description"} :
    \/ bundle.compose.x[f].kind = "map"
    \/ bundle.compose.labels[f].kind = "map"
    \/ bundle.conf[f].kind = "map"

\* C3: the title and description of a record are plain strings, never a locale
\* mapping, whichever source gave the mapping.
C3_NeverLocaleMapping ==
  (rpc \in {"assembled", "failed"} /\ SuppliesMapping) =>
    (fields.title.kind = "str" /\ fields.description.kind = "str")

\* no source gives an explicit category
NoExplicitCategory ==
  /\ ~Truthy(Get(bundle.compose.x.category))
  /\ ~Truthy(Get(bundle.compose.labels.category))
  /\ ~Truthy(Get(bundle.conf.category))

Matches(i, name) ==
  \E j \in 1..Len(category_mapping[i].apps) : Contains(category_mapping[i].apps[j], name)

\* the first category of the table with a keyword in the name, else Uncategorized
ClaimedCategory(name) ==
  IF \E i \in 1..Len(category_mapping) : Matches(i, name)
  THEN category_mapping[CHOOSE i \in 1..Len(category_mapping) :
                          /\ Matches(i, name)
                          /\ \A k \in 1..(i - 1) : ~Matches(k, name)].cat
  ELSE s_Uncategorized

\* C5: with no explicit category in any source, the category of the record is
\* the first table category with a keyword inside the lower-cased resolved
\* title, and "Uncategorized" when there is none.
C5_CategoryInference ==
  (/\ rpc = "assembled"
   /\ NoExplicitCategory
   /\ AnyCandidate("title")
   /\ FirstCandidate("title").kind = "str") =>
    fields.category = Str(ClaimedCategory(Lower(FirstCandidate("title").s)))

(***************************************************************************)
(* Claims about get_docker_compose, checked under SpecCompose              *)
(***************************************************************************)
\* the candidates are requested one at a time in the fixed order
RequestedInOrder ==
  /\ Len(requests) <= 4
  /\ \A i \in 1..Len(requests) :
       requests[i].file =
         <<"docker-compose.yml", "docker-compose.yaml", "compose.yml", "compose.yaml">>[i]

\* C4 as written: the candidates are requested in the fixed order and the
\* search stops at the first candidate answered with HTTP 200: no later
\* candidate is requested.
C4_StopsAtFirst200 ==
  /\ RequestedInOrder
  /\ \A i \in 1..Len(requests) :
       requests[i].resp.status = 200 => i = Len(requests)

\* request i was answered with HTTP 200 and a body that parses as YAML
Parsed200(i) == requests[i].resp.status = 200 /\ requests[i].resp.text.form # "invalid"

\* C4 amended: the candidates are requested one at a time in the fixed order;
\* the search stops at the first candidate answered with HTTP 200 whose body
\* parses as YAML, returning that candidate's parsed content and requesting no
\* later candidate; a 404, like any other answer or a 200 with an unparsable
\* body, only moves on to the next candidate, and {} is returned after the
\* fourth.
C4_StopsAtFirstParsed200 ==
  /\ RequestedInOrder
  /\ \A i \in 1..Len(requests) :
       IF Parsed200(i)
       THEN /\ i = Len(requests)
            /\ cpc = "done"
            /\ compose = (IF requests[i].resp.text.form = "null"
                          THEN NullCompose ELSE requests[i].resp.text.doc)
       ELSE \/ i < Len(requests)
            \/ cpc = "fetch"
            \/ (i = 4 /\ cpc = "done" /\ compose = NoCompose)

\* docker-compose.yml answered 404, docker-compose.yaml answered 200 with text
\* that is not YAML, compose.yml answered 200: its document is the result and
\* compose.yaml was never requested
C4_Witness ==
  /\ cpc = "done"
  /\ Len(requests) = 3
  /\ requests[1].resp.status = 404
  /\ requests[2].resp.status = 200 /\ requests[2].resp.text.form = "invalid"
  /\ requests[3].resp.status = 200
  /\ compose = CandidateDoc(3)

(***************************************************************************)
(* Claims about the app-record cache and the run tracker, checked under    *)
(* Spec.  At pc = "append" the record of the folder is complete and the    *)
(* variables of the loop body still hold what this run did for it.         *)
(***************************************************************************)
\* the record was assembled by this run (not read from the cache, not the
\* placeholder of the except handler)
Assembled == pc = "append" /\ ~hit /\ ~failed

\* the four connector functions of the fetch chain
FetchChain ==
  {"get_conf_json_raw", "get_docker_compose", "get_app_screenshots", "get_creation_date"}

\* C6: a record built and persisted by an earlier run is, while its cache entry
\* is younger than 24 hours, put into the output equal field for field to the
\* persisted one (the output record serialises to the JSON text that the
\* earlier run wrote for the record it built), and no conf, compose, screenshot
\* or commit-history call is made for the folder.
C6_CacheRoundTrip ==
  (pc = "append" /\ hit /\ persisted.valid) =>
    /\ JsonDump(app_data) = JsonDump(persisted.record)
    /\ app_cache.text = JsonDump(persisted.record)
    /\ now - app_cache.mtime < AppTTL
    /\ calls \cap FetchChain = {}

\* a later run reuses a new record whose environment mapping was built with a
\* key that is not a string
C6_Witness ==
  /\ pc = "append" /\ hit /\ persisted.valid
  /\ run > 1
  /\ persisted.record.is_new
  /\ \E i \in 1..Len(persisted.record.environment) :
       persisted.record.environment[i].key.int

\* the cache entry the run found was 24 hours old or older
StaleAtStart == cache_at_start.exists /\ now - cache_at_start.mtime >= AppTTL

\* C7: a cache entry whose age is 24 hours or more is never placed in the
\* output: the record is built anew by the full fetch chain (conf, compose and
\* screenshots, then the commit history unless the resolver raised), even when
\* the stale entry is well-formed JSON.
C7_StaleNeverReused ==
  StaleAtStart =>
    /\ ~hit
    /\ pc = "append" =>
         /\ app_data.updated_at = now
         /\ FetchChain \ {"get_creation_date"} \subseteq calls
         /\ failed \/ "get_creation_date" \in calls

\* a well-formed entry exactly 24 hours old was found and the record rebuilt
C7_Witness ==
  /\ pc = "append"
  /\ cache_at_start.exists
  /\ now - cache_at_start.mtime = AppTTL
  /\ ~JsonError(cache_at_start.text)
  /\ ~hit /\ ~failed
  /\ calls = FetchChain

\* C8: on a cache miss with a prior run timestamp T0 and a resolved creation
\* timestamp T1, the assembled record has is_new = true if T1 > T0 and
\* is_new = false if T1 <= T0.
C8_NoveltyByCreationDate ==
  (Assembled /\ last_run_time.set /\ created.set) =>
    (app_data.is_new <=> created.t > last_run_time.t)

\* C9 as written: with a prior run timestamp and no resolved creation
\* timestamp, the assembled record has is_new = false, whether or not a cache
\* file for the app exists.
C9_UnresolvedDateNotNew ==
  (Assembled /\ last_run_time.set /\ ~created.set) => ~app_data.is_new

\* C9 amended: with a prior run timestamp and no resolved creation timestamp,
\* the assembled record has is_new = false when a cache file for the app
\* already exists and is_new = true when none exists.
C9_UnresolvedDateFollowsCache ==
  (Assembled /\ last_run_time.set /\ ~created.set) =>
    (app_data.is_new <=> ~cache_at_start.exists)

\* a prior run is known, the commit history gave no date, no cache file existed
\* and the record is new
C9_Witness ==
  /\ Assembled
  /\ last_run_time.set
  /\ ~created.set
  /\ ~cache_at_start.exists
  /\ app_data.is_new

\* C10: when no prior RunState could be loaded (absent or corrupt), the
\* assembled record has is_new = true exactly when no cache entry for the app
\* existed before this run, and false when one (even a stale one) existed.
C10_NoPriorRunFollowsCache ==
  (Assembled /\ ~last_run_time.set) =>
    (app_data.is_new <=> ~cache_at_start.exists)

\* the RunState file is corrupt, a stale well-formed entry existed before the
\* run, and the rebuilt record is not new
C10_Witness ==
  /\ Assembled
  /\ last_run_file.exists /\ JsonError(last_run_file.text)
  /\ ~last_run_time.set
  /\ StaleAtStart /\ ~JsonError(cache_at_start.text)
  /\ ~app_data.is_new

(***************************************************************************)
(* Claims about the aggregation pipeline, checked under SpecPipeline.      *)
(***************************************************************************)
\* C11: the returned collection is ordered by created descending: for any two
\* positions i < j, either record j has no creation date, or both have one and
\* created[i] >= created[j]; so every record without a creation date comes
\* after every record with one.
C11_SortedNewestFirst ==
  pc = "done" =>
    \A i \in 1..Len(apps), j \in 1..Len(apps) :
      i < j =>
        \/ ~apps[j].created.set
        \/ apps[i].created.set /\ apps[i].created.t >= apps[j].created.t

\* three records were returned: the newest, an older one, one without a date
C11_Witness ==
  /\ pc = "done"
  /\ Len(apps) = 3
  /\ apps[1].created.set /\ apps[2].created.set /\ ~apps[3].created.set
  /\ apps[1].created.t > apps[2].created.t

\* the run has ended: the script reached its end, or an exception left it
Terminated == pc \in {"done", "crashed"}

\* the output holds a record of folder p = <<repo index, name>>
HasRecord(p) ==
  \E i \in 1..Len(apps) :
    /\ ~KeyRaises(apps[i])
    /\ apps[i].url = TreeUrl(REPOS[p[1]], p[2])

\* the output holds the placeholder record of folder p
HasPlaceholder(p) ==
  \E i \in 1..Len(apps) :
    /\ ~KeyRaises(apps[i])
    /\ apps[i].url = TreeUrl(REPOS[p[1]], p[2])
    /\ apps[i].category = Str(s_Error)

\* C12: if the fetch/resolve/assemble chain raises for one app folder, every
\* other folder of the same repository and every folder of every other
\* repository is still processed and has a record in the final output, and the
\* failing folder is represented by a placeholder record.
C12_FailureContained ==
  (Terminated /\ raised # {}) =>
    /\ pc = "done"
    /\ Len(repo_stats_cache) = Len(REPOS)
    /\ \A p \in listed : HasRecord(p)
    /\ \A p \in raised : HasPlaceholder(p)

\* C14: the previous run timestamp is read exactly once, before any repository
\* is processed; the new timestamp is written exactly once, after the last
\* folder of the last repository, and it is written even if some folders
\* failed; every is_new decision uses the value read at the start.
C14_RunStateOrdering ==
  /\ reads <= 1 /\ saves <= 1
  /\ pc \in {"stats", "list", "folder"} =>
       /\ reads = 1 /\ saves = 0
       /\ last_run_time = LoadLastRun(last_run_file)
  /\ saves = 1 => repo_i = Len(REPOS) /\ folder_i > Len(folders)
  /\ Terminated => reads = 1 /\ saves = 1

\* C16: for every combination of transport failures, malformed remote data and
\* cache-file contents, the run processes all repositories, persists the new
\* RunState and produces the sorted output; no uncaught error aborts it.
C16_RunsToCompletion ==
  /\ pc # "crashed"
  /\ pc = "done" => /\ Len(repo_stats_cache) = Len(REPOS)
                    /\ saves = 1
                    /\ \A p \in listed : HasRecord(p)

\* C17: a cache entry that cannot be parsed or does not have the shape of its
\* record is treated as absent: the run works on re-fetched values only (the
\* statistics in use have their keys, the output holds records only) and does
\* not fail because of the entry.
C17_CorruptTreatedAsAbsent ==
  /\ \A i \in 1..Len(repo_stats_cache) : ~StarsRaises(repo_stats_cache[i])
  /\ \A i \in 1..Len(apps) : ~KeyRaises(apps[i])
  /\ pc # "crashed"

(***************************************************************************)
(* Claims about the fields of a record (under Spec) and about the          *)
(* resolver's failures (under SpecResolve).                                *)
(***************************************************************************)
\* the value is present and not null
Defined(v) == v.kind \notin {"absent", "none"}

\* C13: every AppRecord put in the output or written to the cache has every
\* field present and non-null, including records of apps with no resolvable
\* creation date, no ports, no memory limit, and placeholder records.
C13_EveryFieldDefined ==
  pc \in {"write", "append"} =>
    /\ Defined(app_data.title)
    /\ Defined(app_data.description)
    /\ Defined(app_data.icon)
    /\ Defined(app_data.category)
    /\ Defined(app_data.author)
    /\ Defined(app_data.url)
    /\ Defined(app_data.port)
    /\ Defined(app_data.memory)
    /\ app_data.created.set

\* C15: extract_compose_metadata returns a mapping and raises no error, for
\* every compose document and conf mapping that parsing can produce (a null
\* vendor-extension block included).
C15_ResolverNeverFails == ~compose_metadata.raised

(***************************************************************************)
(* Claims about the kinds of cache miss, checked under SpecMiss.           *)
(***************************************************************************)
BothBuilt == mpc[1] = "done" /\ mpc[2] = "done"

\* C18 as written: for the same remote data and the same RunState, the record
\* assembled for the folder is identical in every field other than updated_at
\* whether the cache entry was absent, stale or unparsable before the run.
C18_MissKindsIndistinguishable ==
  BothBuilt =>
    [built[1] EXCEPT !.updated_at = 0] = [built[2] EXCEPT !.updated_at = 0]

\* C18 amended: the two records are identical in every field other than
\* updated_at and is_new; is_new is identical too between a stale and an
\* unparsable entry, and whenever the chain raised or both a prior run timestamp
\* and a creation date are there; otherwise it is true for an absent entry and
\* false for a stale or unparsable one.
C18_MissKindsDifferInNovelty ==
  BothBuilt =>
    /\ [built[1] EXCEPT !.updated_at = 0, !.is_new = FALSE]
         = [built[2] EXCEPT !.updated_at = 0, !.is_new = FALSE]
    /\ IF \/ ExtractComposeMetadata(given.compose, given.conf).raised
          \/ given.last_run.set /\ given.created.set
          \/ entry[1].exists = entry[2].exists
       THEN built[1].is_new = built[2].is_new
       ELSE \A side \in Sides : built[side].is_new = ~entry[side].exists

\* no prior run; one side found no entry and built a new record, the other
\* found a stale entry and built the same record, not new
C18_Witness ==
  /\ BothBuilt
  /\ ~given.last_run.set
  /\ given.created.set
  /\ ~entry[1].exists /\ entry[2].exists
  /\ built[1].is_new /\ ~built[2].is_new
  /\ built[1].created = built[2].created

(***************************************************************************)
(* Claims about the exporter, checked under SpecExport.                    *)
(***************************************************************************)
\* C19: in the exporter's output every listing id is unique: after any
\* sequence of input records (identical titles, identical repository suffixes,
\* titles that already look like a suffixed id), no two listings have the
\* same id.
C19_ListingIdsUnique ==
  \A i \in 1..Len(cosmos_apps), j \in 1..Len(cosmos_apps) :
    i # j => cosmos_apps[i] # cosmos_apps[j]

\* a title that looks like a suffixed id came first, then the same title twice
\* from repository R1: the third listing got its id from the counter
C19_Witness ==
  /\ epc = "done"
  /\ cosmos_apps = << <<"p", "l", "e", "x", "-", "r", "1">>,
                      <<"p", "l", "e", "x">>,
                      <<"p", "l", "e", "x", "-", "1">> >>

(***************************************************************************)
(* Claims about get_app_screenshots, checked under SpecScreenshots.        *)
(***************************************************************************)
\* the discovery loop of the current call has run, or is running
Discovering == on_entry.index # "fresh" /\ spc \in {"probe", "returned"}

Resolved ==
  /\ rpc \in {"resolved", "assembled"}
  /\ ~compose_metadata.raised
  /\ bundle.compose.kind = "doc"

\* the port C21 expects for the first entry: of a mapping its target if the
\* key is present, else its published; of a "host:container" string (one
\* colon) the part before the colon; of any other entry the entry itself
ClaimedPort(first_port) ==
  IF first_port.kind = "dict"
  THEN StrIfTruthy(IF first_port.a.kind # "absent" THEN first_port.a
                   ELSE GetOr(first_port.b, Str(<<>>)))
  ELSE IF Cardinality({i \in 1..Len(first_port.a.s) : first_port.a.s[i] = ":"}) = 1
  THEN Str(BeforeFirstColon(first_port.a.s))
  ELSE first_port.a

\* C21: the port is taken from the first entry of the first service's ports
\* only: a mapping yields its target if present, else its published; a
\* "host:container" string yields the host segment; any other entry yields
\* itself; and without ports the metadata has no port key.
C21_PortExtraction ==
  Resolved =>
    IF bundle.compose.ports = <<>>
    THEN compose_metadata.port = Absent /\ "port" \notin compose_metadata.keys
    ELSE /\ compose_metadata.port = ClaimedPort(bundle.compose.ports[1])
         /\ "port" \in compose_metadata.keys

\* C22: the version is the value of the casaos.version label if the label is
\* present; otherwise the content after the last colon of the first service's
\* image when the image contains a colon; otherwise the empty string.
C22_VersionExtraction ==
  Resolved =>
    LET label == bundle.compose.label_version
        image == bundle.compose.image
    IN compose_metadata.version =
         IF label.kind # "absent" THEN label
         ELSE IF image.kind = "str" /\ HasColon(image.s)
              THEN Str(SubSeq(image.s,
                              1 + CHOOSE i \in 1..Len(image.s) :
                                    /\ image.s[i] = ":"
                                    /\ \A j \in (i + 1)..Len(image.s) : image.s[j] # ":",
                              Len(image.s)))
              ELSE Str(<<>>)

\* an image with a registry port and a tag, without a version label, has been
\* resolved to its tag
C22_Witness ==
  /\ Resolved
  /\ bundle.compose.label_version = Absent
  /\ bundle.compose.image = Str(s_B \o <<":">> \o s_port \o <<"/">> \o s_A \o <<":">> \o s_one)
  /\ compose_metadata.version = Str(s_one)

\* C23: for every input bundle, also one without a compose document or with
\* an empty one, the resolver returns a mapping with the keys title, icon,
\* description, category, author, version, volumes and environment, each with
\* a defined value.
C23_KeysAlwaysDefined ==
  rpc \in {"resolved", "assembled", "failed"} =>
    /\ ~compose_metadata.raised
    /\ FieldNames \cup {"version", "volumes", "environment"} \subseteq compose_metadata.keys
    /\ \A f \in FieldNames : Defined(compose_metadata.md[f])
    /\ Defined(compose_metadata.version)

(***************************************************************************)
(* Further claims about the loop over the repositories, checked under      *)
(* SpecPipeline.                                                           *)
(***************************************************************************)
\* C24: a folder whose assembly chain raises is represented by a placeholder
\* record with the folder name as title, category "Error", compose_available
\* false, is_new false, and the stars and forks held for its repository in
\* this run.
C24_PlaceholderRecord ==
  \A p \in raised :
    \E i \in 1..Len(apps) :
      /\ ~KeyRaises(apps[i])
      /\ apps[i].url = TreeUrl(REPOS[p[1]], p[2])
      /\ apps[i].title = Str(p[2])
      /\ apps[i].category = Str(s_Error)
      /\ apps[i].compose_available = FALSE
      /\ apps[i].is_new = FALSE
      /\ apps[i].stars = repo_stats_cache[p[1]].stars
      /\ apps[i].forks = repo_stats_cache[p[1]].forks

\* C28: the output holds exactly one record per app folder returned by the
\* listing calls of the run: its length is the number of folders listed over
\* all repositories, whether a folder was a cache hit, a successful miss or
\* a failure; a repository whose listing fails adds no record and does not
\* stop the remaining repositories.
C28_OneRecordPerFolder ==
  Terminated =>
    /\ pc = "done"
    /\ Len(repo_stats_cache) = Len(REPOS)
    /\ Len(apps) = Cardinality(listed)

(***************************************************************************)
(* A further claim about the main script, checked under Spec.              *)
(***************************************************************************)
\* the run put the placeholder record of the folder in the output
RunFailed ==
  /\ pc \in {"save_last_run", "done"}
  /\ Len(apps) = 1
  /\ apps[1].category = Str(s_Error)

\* C29: a placeholder error record is never written to the AppRecord cache:
\* after a run in which the folder's assembly failed, the cache entry of the
\* folder is as it was before the run, so the next run goes through the full
\* fetch chain again instead of reusing the placeholder.
C29_PlaceholderNotCached ==
  [][/\ RunFailed => app_cache = cache_at_start
     /\ (RunFailed /\ pc = "done" /\ pc' = "load_last_run") =>
          ~AppCacheUsable(app_cache', now')]_vars

\* a run has ended in which the folder's assembly failed; the unreadable
\* cache entry it found is still as it was
C29_Witness ==
  /\ RunFailed
  /\ pc = "done"
  /\ cache_at_start.exists
  /\ app_cache = cache_at_start

(***************************************************************************)
(* Claims about get_repo_stats, checked under SpecStats.                   *)
(***************************************************************************)
\* C25: a cached RepoStats entry is returned without a network call exactly
\* when it exists, is younger than one hour and parses; otherwise one request
\* is made, its result is written to the cache on HTTP 200, and on any failure
\* the zeroed default is returned and nothing is written to the cache.
C25_RepoStatsFreshness ==
  tpc = "returned" =>
    IF /\ stats_entry.exists
       /\ now - stats_entry.mtime < 3600
       /\ ~JsonError(stats_entry.text)
    THEN /\ stats_requests = 0
         /\ stats_out = JsonLoad(stats_entry.text)
         /\ stats_file = stats_entry
    ELSE /\ stats_requests = 1
         /\ IF stats_answer.status = 200
            THEN /\ stats_out = stats_answer.stats
                 /\ stats_put # "none"
                 /\ stats_put = "written" =>
                      stats_file = File(now, JsonText(stats_answer.stats))
            ELSE /\ stats_out = Stats(0, 0)
                 /\ stats_put = "none"
                 /\ stats_file = stats_entry

\* a call found a parsable entry of exactly one hour, asked the API and was
\* refused: the default was returned and the entry left as it was
C25_Witness ==
  /\ tpc = "returned"
  /\ stats_entry.exists
  /\ now - stats_entry.mtime = 3600
  /\ ~JsonError(stats_entry.text)
  /\ stats_answer.status = 403
  /\ stats_out = Stats(0, 0)
  /\ stats_file = stats_entry

C27_CacheAdditiveOnly ==
  [][/\ app_cache.exists => app_cache'.exists
     /\ compose_cache.exists => compose_cache'.exists
     /\ last_run_file.exists => last_run_file'.exists
     /\ stats_file.exists => stats_file'.exists
     /\ shot_cache.exists => shot_cache'.exists
     /\ local_files \subseteq local_files']_vars

\* the second run of the script has ended; it found an app cache entry and a
\* run tracker and wrote both again
C27_Witness ==
  /\ pc = "done"
  /\ run = 2
  /\ cache_at_start.exists
  /\ app_cache.exists
  /\ app_cache.mtime = now
  /\ last_run_file.exists
  /\ last_run_file.mtime = now

(***************************************************************************)
(* A further claim about the exporter, checked under SpecExport.           *)
(***************************************************************************)
\* the url ends with an /Apps/<folder> segment
EndsWithAppsFolder(url) ==
  LET u == IF url # <<>> /\ url[Len(url)] = "/" THEN SubSeq(url, 1, Len(url) - 1) ELSE url
  IN \E i \in 1..Len(u) :
       /\ i + 6 <= Len(u)
       /\ SubSeq(u, i, i + 5) = <<"/", "A", "p", "p", "s", "/">>
       /\ \A k \in (i + 6)..Len(u) : u[k] # "/"

\* a record the exporter is to emit a listing for
Eligible(app) ==
  app.compose_available /\ app.repo # <<>> /\ EndsWithAppsFolder(app.url)

\* C30: the exporter emits a listing only for input records with
\* compose_available true and a derivable compose URL (a non-empty repo and an
\* /Apps/<folder> segment at the end of the url); every other record is
\* skipped, the listings keep the relative order of the input records, and
\* emitted plus skipped is the number of input records.
C30_EmitsEligibleInOrder ==
  /\ Len(sources) = Len(cosmos_apps)
  /\ \A k \in 1..Len(sources) : Eligible(export_in[sources[k]])
  /\ \A k \in 1..(Len(sources) - 1) : sources[k] < sources[k + 1]
  /\ \A i \in 1..(ei - 1) :
       Eligible(export_in[i]) => \E k \in 1..Len(sources) : sources[k] = i
  /\ Len(cosmos_apps) + skipped = ei - 1
  /\ epc = "done" => Len(cosmos_apps) + skipped = Len(export_in)

\* three records were read: one without compose, one eligible, one whose url
\* goes on after the folder; the second alone has a listing
C30_Witness ==
  /\ epc = "done"
  /\ Len(export_in) = 3
  /\ ~export_in[1].compose_available
  /\ export_in[3].compose_available /\ export_in[3].repo # <<>>
  /\ ~EndsWithAppsFolder(export_in[3].url)
  /\ sources = <<2>>
  /\ skipped = 2

====
